---- MODULE Spec2Model ----
(***************************************************************************)
(* SOFLang toolchain: the stack-machine translator (soflang/asm.py), the   *)
(* instruction set, its text form and its interpreters                     *)
(* (soflang/asm_ops.py, soflang/lvm.py), the binary encoder                *)
(* (soflang/binarify.py), the bit-level board (arch/logic.py,              *)
(* arch/components.py), the loading of source files and the resolution of  *)
(* templates (soflang/preprocess.py), the validator                        *)
(* (soflang/validator.py) and the debugger (soflang/debugger.py).          *)
(***************************************************************************)
EXTENDS Integers, Sequences, FiniteSets, TLC

(***************************************************************************)
(* Bounds of the exploration.                                              *)
(***************************************************************************)
MaxSteps == 40

(***************************************************************************)
(* Program constants.                                                      *)
(***************************************************************************)
stack_size == 2400
max_result == 20

(***************************************************************************)
(* Generic helpers.                                                        *)
(***************************************************************************)
\* evaluate v once and name it in Op
Bind(v, Op(_)) == CHOOSE r \in {Op(x) : x \in {v}} : TRUE

Put(d, k, v) == [x \in (DOMAIN d) \cup {k} |-> IF x = k THEN v ELSE d[x]]

RECURSIVE SumSizes(_, _)
SumSizes(sizes, names) ==
    IF names = {} THEN 0
    ELSE Bind(CHOOSE x \in names : TRUE,
              LAMBDA n : sizes[n] + SumSizes(sizes, names \ {n}))

RECURSIVE SumSizesSeq(_, _)
SumSizesSeq(sizes, names) ==
    IF names = <<>> THEN 0
    ELSE sizes[Head(names)] + SumSizesSeq(sizes, Tail(names))

(***************************************************************************)
(* Instructions: a record of the class name (its mnemonic), the integer    *)
(* immediate and, for TempJumpAI, the callee name.                         *)
(***************************************************************************)
I0(op) == [op |-> op, arg |-> 0, f |-> ""]
I1(op, a) == [op |-> op, arg |-> a, f |-> ""]
TempJumpAI(name) == [op |-> "TJUMPA", arg |-> 0, f |-> name]

(***************************************************************************)
(* ExecutionContext: the stack is a Python list of stack_size zeros, kept  *)
(* here as the finite map of its non-zero cells.  Python list indexing     *)
(* accepts -len..len-1 and raises IndexError elsewhere.                    *)
(***************************************************************************)
ValidIdx(i) == i >= -stack_size /\ i < stack_size
Norm(i) == IF i < 0 THEN i + stack_size ELSE i
Rd(stack, i) == IF Norm(i) \in DOMAIN stack THEN stack[Norm(i)] ELSE 0
Wr(stack, i, v) ==
    IF v = 0
    THEN [x \in (DOMAIN stack) \ {Norm(i)} |-> stack[x]]
    ELSE [x \in (DOMAIN stack) \cup {Norm(i)} |-> IF x = Norm(i) THEN v ELSE stack[x]]

EmptyStack == [x \in {} |-> 0]

\* ExecutionContext.push: one more cell, then the write.
push(ec, v) ==
    IF ~ec.ok THEN ec
    ELSE IF ~ValidIdx(ec.sp + 1) THEN [ec EXCEPT !.ok = FALSE]
    ELSE [ec EXCEPT !.sp = ec.sp + 1, !.stack = Wr(ec.stack, ec.sp + 1, v)]

\* ExecutionContext.pop: the value read ...
top(ec) == Rd(ec.stack, ec.sp)
\* ... and the context after the cell is zeroed and sp decremented.
pop(ec) ==
    IF ~ec.ok THEN ec
    ELSE IF ~ValidIdx(ec.sp) THEN [ec EXCEPT !.ok = FALSE]
    ELSE [ec EXCEPT !.sp = ec.sp - 1, !.stack = Wr(ec.stack, ec.sp, 0)]

\* ExecutionContext.store
store(ec, i, v) ==
    IF ~ec.ok THEN ec
    ELSE IF ~ValidIdx(i) THEN [ec EXCEPT !.ok = FALSE]
    ELSE [ec EXCEPT !.stack = Wr(ec.stack, i, v)]

\* stack[i] read with the list's bounds check
load(ec, i) == Rd(ec.stack, i)
fail(ec) == [ec EXCEPT !.ok = FALSE]

RECURSIVE popN(_, _)
popN(ec, n) == IF n <= 0 THEN ec ELSE popN(pop(ec), n - 1)

RECURSIVE pushZeros(_, _)
pushZeros(ec, n) == IF n <= 0 THEN ec ELSE pushZeros(push(ec, 0), n - 1)

\* Python's floor division a // b for b # 0
FloorDiv(a, b) == IF b > 0 THEN a \div b ELSE (-a) \div (-b)

(***************************************************************************)
(* arch/logic.py: Number8 is a list of 8 booleans, most significant first; *)
(* AbstractNumber (Number32) a list of 4 Number8.  Python's index k is the *)
(* sequence index k + 1.                                                   *)
(***************************************************************************)
Bits8(F(_)) == <<F(1), F(2), F(3), F(4), F(5), F(6), F(7), F(8)>>
ZERO8 == Bits8(LAMBDA i : FALSE)
ONE8 == Bits8(LAMBDA i : i = 8)
TWO8 == Bits8(LAMBDA i : i = 7)
THREE8 == Bits8(LAMBDA i : i >= 7)
FOUR8 == Bits8(LAMBDA i : i = 6)
FIVE8 == Bits8(LAMBDA i : i = 6 \/ i = 8)
MAX8 == Bits8(LAMBDA i : TRUE)
ZERO32 == <<ZERO8, ZERO8, ZERO8, ZERO8>>
ONE32 == <<ZERO8, ZERO8, ZERO8, ONE8>>
TWO32 == <<ZERO8, ZERO8, ZERO8, TWO8>>
THREE32 == <<ZERO8, ZERO8, ZERO8, THREE8>>
FOUR32 == <<ZERO8, ZERO8, ZERO8, FOUR8>>
FIVE32 == <<ZERO8, ZERO8, ZERO8, FIVE8>>

Pow2(n) == 2 ^ n

\* num8_from_int: the bits of v, least significant first, then reversed
num8_from_int(v) == Bits8(LAMBDA i : ((v \div Pow2(8 - i)) % 2) = 1)

\* Number8.to_int
RECURSIVE Number8_to_int_loop(_, _, _)
Number8_to_int_loop(b, i, res) ==
    IF i > 8 THEN res
    ELSE Number8_to_int_loop(b, i + 1, 2 * res + (IF b[i] THEN 1 ELSE 0))

Number8_to_int(b) == Number8_to_int_loop(b, 1, 0)

\* Number8.add: the ripple-carry adder, bit 7 down to bit 0; tmp is the carry
AddBit(s, o, tmp) ==
    (s /\ ~o /\ ~tmp) \/ (~s /\ o /\ ~tmp) \/ (~s /\ ~o /\ tmp) \/ (s /\ o /\ tmp)
\* a carry that forgets the term other-and-carry
CarryBit_TwoTerms(s, o, tmp) == (s /\ o) \/ (s /\ tmp)
CarryBit(s, o, tmp) == (s /\ o) \/ (s /\ tmp) \/ (o /\ tmp)

RECURSIVE Number8_add_loop(_, _, _, _, _)
Number8_add_loop(self, other, i, tmp, res) ==
    IF i < 1 THEN [res |-> res, tmp |-> tmp]
    ELSE Bind(CarryBit(self[i], other[i], tmp),
              LAMBDA c : Number8_add_loop(self, other, i - 1, c,
                           [res EXCEPT ![i] = AddBit(self[i], other[i], tmp)]))

Number8_add(self, other, tmp) == Number8_add_loop(self, other, 8, tmp, ZERO8)

Number8_inv(self) == Bits8(LAMBDA i : ~self[i])

\* Number8.comp: -1, 0 or 1 by the first bit that differs (False < True)
RECURSIVE Number8_comp_loop(_, _, _)
Number8_comp_loop(self, other, i) ==
    IF i > 8 THEN 0
    ELSE IF ~self[i] /\ other[i] THEN -1
    ELSE IF self[i] /\ ~other[i] THEN 1
    ELSE Number8_comp_loop(self, other, i + 1)

Number8_comp(self, other) == Number8_comp_loop(self, other, 1)
Number8_eq(self, other) == Number8_comp(self, other) = 0

\* AbstractNumber.__eq__
Number32_eq(self, other) == \A i \in 1..4 : Number8_eq(self[i], other[i])

\* AbstractNumber.__getitem__ (item is the 0-based bit index)
GetBit(self, item) == self[(item \div 8) + 1][(item % 8) + 1]

\* AbstractNumber.to_int: the 32 bits read as an unsigned number, minus 2^32
\* when the sign bit is set (the top byte is weighted after the sign is
\* taken out so that no intermediate value leaves the 32-bit range)
to_int(self) ==
    (IF self[1][1] THEN Number8_to_int(self[1]) - 256 ELSE Number8_to_int(self[1])) * 16777216
    + Number8_to_int(self[2]) * 65536 + Number8_to_int(self[3]) * 256
    + Number8_to_int(self[4])

\* num32_from_int: four times v % 256, v //= 256, then reversed
num32_from_int(v) ==
    << num8_from_int((v \div 16777216) % 256), num8_from_int((v \div 65536) % 256),
       num8_from_int((v \div 256) % 256), num8_from_int(v % 256) >>

\* AbstractNumber.__add__: bytes 3 down to 0 through Number8.add
RECURSIVE Number32_add_loop(_, _, _, _, _)
Number32_add_loop(self, other, i, tmp, res) ==
    IF i < 1 THEN res
    ELSE Bind(Number8_add(self[i], other[i], tmp),
              LAMBDA r : Number32_add_loop(self, other, i - 1, r.tmp,
                                           [res EXCEPT ![i] = r.res]))

Number32_add(self, other) ==
    Bind(<<self, other>>, LAMBDA p : Number32_add_loop(p[1], p[2], 4, FALSE, ZERO32))

\* AbstractNumber.__neg__: every byte inverted, plus ONE32
Number32_inv(self) ==
    <<Number8_inv(self[1]), Number8_inv(self[2]), Number8_inv(self[3]), Number8_inv(self[4])>>

Number32_neg(self) == Number32_add(Bind(self, LAMBDA s : Number32_inv(s)), ONE32)

\* AbstractNumber.__sub__
Number32_sub(self, other) == Number32_add(self, Number32_neg(other))

\* AbstractNumber.__lshift__: res[i] = self[i + sz] for i < 32 - sz
ShiftedBit(self, sz, i) == IF i < 32 - sz THEN GetBit(self, i + sz) ELSE FALSE
ShiftedByte(self, sz, b) == Bits8(LAMBDA k : ShiftedBit(self, sz, 8 * b + (k - 1)))

Number32_lshift(self, sz) ==
    Bind(self, LAMBDA s : <<ShiftedByte(s, sz, 0), ShiftedByte(s, sz, 1),
                            ShiftedByte(s, sz, 2), ShiftedByte(s, sz, 3)>>)

\* AbstractNumber.__mul__: shift-and-add over the bits of other, bit 0 first
Number32_mul_step(self, other, i, res) ==
    IF GetBit(other, i) THEN Number32_add(Number32_lshift(res, 1), self)
    ELSE Number32_lshift(res, 1)

\* the turns lo .. hi - 1 of the loop, in order (the range is split in two
\* only to keep the evaluation shallow)
RECURSIVE Number32_mul_loop(_, _, _, _, _)
Number32_mul_loop(self, other, lo, hi, res) ==
    IF hi - lo = 1 THEN Number32_mul_step(self, other, lo, res)
    ELSE Bind(Number32_mul_loop(self, other, lo, (lo + hi) \div 2, res),
              LAMBDA r : Number32_mul_loop(self, other, (lo + hi) \div 2, hi, r))

Number32_mul(self, other) ==
    Bind(<<self, other>>, LAMBDA p : Number32_mul_loop(p[1], p[2], 0, 32, ZERO32))

\* AbstractNumber.__lt__
RECURSIVE Number32_lt_bytes(_, _, _)
Number32_lt_bytes(self, other, i) ==
    IF i > 4 THEN FALSE
    ELSE IF Number8_comp(self[i], other[i]) # 0
         THEN Number8_comp(self[i], other[i]) < 0
         ELSE Number32_lt_bytes(self, other, i + 1)

RECURSIVE Number32_lt_values(_, _)
Number32_lt_values(self, other) ==
    IF Number32_eq(self, other) THEN FALSE
    ELSE IF GetBit(self, 0) # GetBit(other, 0) THEN GetBit(self, 0)
    ELSE IF GetBit(self, 0)
         THEN Bind(<<Number32_neg(other), Number32_neg(self)>>,
                   LAMBDA p : Number32_lt_values(p[1], p[2]))
    ELSE Number32_lt_bytes(self, other, 1)

Number32_lt(self, other) ==
    Bind(<<self, other>>, LAMBDA p : Number32_lt_values(p[1], p[2]))

\* the value a raising operation leaves behind (also Python's None)
None == <<>>

\* AbstractNumber.__truediv__: highest_bit is the first set bit of |other|
RECURSIVE HighestBit(_, _)
HighestBit(b, i) ==
    IF i >= 32 THEN -1 ELSE IF GetBit(b, i) THEN i ELSE HighestBit(b, i + 1)

\* the restoring loop, shift from highest_bit - 1 down to 0; it shifts
\* `other`, not its absolute value
DivStep(a, res, shifted) ==
    IF ~Number32_lt(a, shifted)
    THEN [a |-> Number32_sub(a, shifted), res |-> Number32_add(res, ONE32)]
    ELSE [a |-> a, res |-> res]

\* the turns shift = hi, hi - 1, .. lo of the loop, in order (the range is
\* split in two only to keep the evaluation shallow)
RECURSIVE Number32_div_loop(_, _, _, _)
Number32_div_loop(st, other, hi, lo) ==
    IF hi < lo THEN st
    ELSE IF hi = lo
    THEN DivStep(st.a, Number32_lshift(st.res, 1), Number32_lshift(other, hi))
    ELSE Bind(Number32_div_loop(st, other, hi, ((lo + hi) \div 2) + 1),
              LAMBDA r : Number32_div_loop(r, other, (lo + hi) \div 2, lo))

Abs32(x) == IF GetBit(x, 0) THEN Number32_neg(x) ELSE x

Number32_div_abs(a, b, other, neg_result) ==
    IF GetBit(a, 0) \/ GetBit(b, 0) THEN None          \* assert not a[0] / b[0]
    ELSE IF HighestBit(b, 0) = -1 THEN None            \* Division by zero
    ELSE Bind(Number32_div_loop([a |-> a, res |-> ZERO32], other, HighestBit(b, 0) - 1, 0),
              LAMBDA r : IF neg_result THEN Number32_neg(r.res) ELSE r.res)

Number32_truediv(self, other) ==
    Bind(<<self, other>>,
         LAMBDA p : Bind(<<Abs32(p[1]), Abs32(p[2])>>,
                         LAMBDA q : Number32_div_abs(q[1], q[2], p[2],
                                                     GetBit(p[1], 0) # GetBit(p[2], 0))))

\* AbstractNumber.extend_from_num16 changes self in place and returns nothing
extend_from_num16(self) == None

(***************************************************************************)
(* soflang/asm.py: the instruction classes the translator emits, with the  *)
(* apply() of each class (ip always steps by one instruction).             *)
(***************************************************************************)
ApplyAsm(i, ec) ==
    LET a == top(ec)
        e1 == pop(ec)
        b == top(e1)
        e2 == pop(e1)
    IN CASE i.op = "ADD" -> [push(e2, a + b) EXCEPT !.ip = ec.ip + 1]
         [] i.op = "SUB" -> [push(e2, b - a) EXCEPT !.ip = ec.ip + 1]
         [] i.op = "MUL" -> [push(e2, a * b) EXCEPT !.ip = ec.ip + 1]
         [] i.op = "DIV" -> IF a = 0 THEN fail(ec)
                            ELSE [push(e2, FloorDiv(b, a)) EXCEPT !.ip = ec.ip + 1]
         [] i.op = "INV" -> [push(e1, IF a # 0 THEN 0 ELSE 1) EXCEPT !.ip = ec.ip + 1]
         [] i.op = "PUSH" -> [push(ec, i.arg) EXCEPT !.ip = ec.ip + 1]
         [] i.op = "POP" -> [popN(ec, i.arg) EXCEPT !.ip = ec.ip + 1]
         [] i.op = "STORE" -> [store(e1, ec.sp - i.arg, a) EXCEPT !.ip = ec.ip + 1]
         [] i.op = "DSTORE" -> [store(e2, ec.sp - a, b) EXCEPT !.ip = ec.ip + 1]
         [] i.op = "LOAD" ->
              IF ~ValidIdx(ec.sp - i.arg) THEN fail(ec)
              ELSE [push(ec, load(ec, ec.sp - i.arg)) EXCEPT !.ip = ec.ip + 1]
         [] i.op = "DLOAD" ->
              IF ~ValidIdx(ec.sp - a) THEN fail(ec)
              ELSE [push(e1, load(e1, ec.sp - a)) EXCEPT !.ip = ec.ip + 1]
         [] i.op = "JUMP" -> [ec EXCEPT !.ip = ec.ip + i.arg]
         [] i.op = "JUMP0" -> [e1 EXCEPT !.ip = IF a = 0 THEN ec.ip + i.arg ELSE ec.ip + 1]
         [] i.op = "JUMPA" -> [ec EXCEPT !.ip = i.arg]
         [] i.op = "DUMP" -> [push(ec, ec.ip) EXCEPT !.ip = ec.ip + 1]
         [] i.op = "RETURN" -> [e1 EXCEPT !.ip = a + 1]
         [] i.op = "ALLOC" -> [pushZeros(ec, i.arg) EXCEPT !.ip = ec.ip + 1]
         [] OTHER -> fail(ec)

(***************************************************************************)
(* soflang/asm.py: SingleFunctionTinyTranslator.  The translator state is  *)
(* the record of its fields; sym and blocks are observations of stack_pos: *)
(* sym[k] is stack_pos when result[k] was appended, blocks lists for every *)
(* _parse_body call the index of its first instruction, stack_pos at      *)
(* entry and after _clean_stack, the words its declarations allocated and  *)
(* the words its _clean_stack popped.                                      *)
(***************************************************************************)
calculate_space(type, array_size) == IF type = "NUM" THEN 1 ELSE array_size

NewTranslator ==
    [result |-> <<>>, sym |-> <<>>, var_stack_positions |-> [x \in {} |-> 0],
     var_stack_sizes |-> [x \in {} |-> 0], stack_pos |-> -1, blocks |-> <<>>,
     frame |-> <<>>]

\* self.result.append(instr)
Emit(st, instr) ==
    [st EXCEPT !.result = Append(st.result, instr),
               !.sym = Append(st.sym, st.stack_pos)]

\* self.stack_pos += d
Move(st, d) == [st EXCEPT !.stack_pos = st.stack_pos + d]

calc_and_alloc(st, type, array_size) ==
    Move(Emit(st, I1("ALLOC", calculate_space(type, array_size))),
         calculate_space(type, array_size))

RECURSIVE LoadWords(_, _, _, _)
LoadWords(st, var_name, i, sz) ==
    IF i >= sz THEN st
    ELSE LoadWords(
           Move(Emit(st, I1("LOAD", st.stack_pos - st.var_stack_positions[var_name] - i)), 1),
           var_name, i + 1, sz)

_load_var_on_stack(st, var_name) ==
    LoadWords(st, var_name, 0, st.var_stack_sizes[var_name])

RECURSIVE LoadParams(_, _)
LoadParams(st, params) ==
    IF params = <<>> THEN st
    ELSE LoadParams(_load_var_on_stack(st, Head(params)), Tail(params))

_clean_stack(st, cleaning_size) ==
    IF cleaning_size > 0
    THEN Move(Emit(st, I1("POP", cleaning_size)), -cleaning_size)
    ELSE st

_parse_atom(st, atom, all_functions) ==
    CASE atom.value.kind = "IntegerLiteral" -> Move(Emit(st, I1("PUSH", atom.value.value)), 1)
      [] atom.value.kind = "IdentifierExpr" -> _load_var_on_stack(st, atom.value.name)
      [] atom.value.kind = "ArrayIndex" ->
           IF atom.value.index.kind = "int"
           THEN Move(Emit(st, I1("LOAD",
                       st.stack_pos - st.var_stack_positions[atom.value.var_name]
                         - atom.value.index.int)), 1)
           ELSE Emit(Move(Emit(
                       _load_var_on_stack(
                           Move(Emit(st, I1("PUSH",
                               st.stack_pos - st.var_stack_positions[atom.value.var_name] + 1)), 1),
                           atom.value.index.name),
                       I0("SUB")), -1), I0("DLOAD"))
      [] atom.value.kind = "FunctionCall" ->
           Emit(LoadParams(
                  Move(Emit(calc_and_alloc(st, all_functions[atom.value.name].return_type,
                                           all_functions[atom.value.name].return_array_size),
                            I0("DUMP")), 1),
                  atom.value.parameters),
                TempJumpAI(all_functions[atom.value.name].name))

OpInstr(op) ==
    CASE op = "+" -> I0("ADD")
      [] op = "-" -> I0("SUB")
      [] op = "*" -> I0("MUL")
      [] op = "/" -> I0("DIV")

RECURSIVE _parse_expr(_, _, _)
_parse_expr(st, expr, all_functions) ==
    CASE expr.kind = "Atom" -> _parse_atom(st, expr, all_functions)
      [] expr.kind = "GeneralExpr" ->
           Move(Emit(_parse_expr(_parse_expr(st, expr.left, all_functions),
                                 expr.right, all_functions),
                     OpInstr(expr.op)), -1)
      [] expr.kind = "UnaryExpr" ->
           Emit(_parse_expr(st, expr.operand, all_functions), I0("INV"))

\* the words stored in the order they were loaded: word i into slot i
RECURSIVE StoreWords_FirstWordFirst(_, _, _, _)
StoreWords_FirstWordFirst(st, target, i, sz) ==
    IF i >= sz THEN st
    ELSE StoreWords_FirstWordFirst(
           Move(Emit(st, I1("STORE",
                   st.stack_pos - st.var_stack_positions[target] - i)), -1),
           target, i + 1, sz)

RECURSIVE StoreWords(_, _, _, _)
StoreWords(st, target, i, sz) ==
    IF i >= sz THEN st
    ELSE StoreWords(
           Move(Emit(st, I1("STORE",
                   st.stack_pos - st.var_stack_positions[target] - (sz - 1 - i))), -1),
           target, i + 1, sz)

ReplaceAt(seq, k, x) == [seq EXCEPT ![k] = x]

RECURSIVE ParseLines(_, _, _, _, _)
RECURSIVE _parse_body(_, _, _)

\* one iteration of the loop over the lines of a body; the result is the
\* translator state and the local_vars set after the line, with the number
\* of words the line declared (dw)
Line(st, local_vars, dw) == [st |-> st, lv |-> local_vars, dw |-> dw]

\* the variable index subtracted from array_start, not from array_start + 1
AssignmentLine_FromArrayStart(s1, line) ==
    IF line.target.kind = "str"
    THEN StoreWords(s1, line.target.name, 0, s1.var_stack_sizes[line.target.name])
    ELSE IF line.target.index.kind = "int"
    THEN Move(Emit(s1, I1("STORE",
                 s1.stack_pos - s1.var_stack_positions[line.target.var_name]
                   - line.target.index.int)), -1)
    ELSE Move(Emit(Move(Emit(
                _load_var_on_stack(
                    Move(Emit(s1, I1("PUSH",
                        s1.stack_pos - s1.var_stack_positions[line.target.var_name])), 1),
                    line.target.index.name),
                I0("SUB")), -1), I0("DSTORE")), -2)

AssignmentLine(s1, line) ==
    IF line.target.kind = "str"
    THEN StoreWords(s1, line.target.name, 0, s1.var_stack_sizes[line.target.name])
    ELSE IF line.target.index.kind = "int"
    THEN Move(Emit(s1, I1("STORE",
                 s1.stack_pos - s1.var_stack_positions[line.target.var_name]
                   - line.target.index.int)), -1)
    ELSE Move(Emit(Move(Emit(
                _load_var_on_stack(
                    Move(Emit(s1, I1("PUSH",
                        s1.stack_pos - s1.var_stack_positions[line.target.var_name] + 1)), 1),
                    line.target.index.name),
                I0("SUB")), -1), I0("DSTORE")), -2)

DeclarationLine(s1, var, space) ==
    [s1 EXCEPT
       !.var_stack_positions =
           Put(s1.var_stack_positions, var.name, s1.stack_pos - space + 1),
       !.var_stack_sizes = Put(s1.var_stack_sizes, var.name, space)]

\* the JUMP0 placeholder after the condition (jump_pos is its index)
CondJump(s1) == Move(Emit(s1, I1("JUMP0", -1)), -1)

\* patching the placeholder at jump_pos once the body has been translated
PatchIf(s3, jump_pos) ==
    [s3 EXCEPT !.result = ReplaceAt(s3.result, jump_pos + 1,
                                    I1("JUMP0", Len(s3.result) - jump_pos))]

\* the JUMP0 of the loop patched before the JUMP is appended
PatchWhile_OntoJump(s3, calc_pos, jump_pos) ==
    [s3 EXCEPT
       !.result = ReplaceAt(Append(s3.result, I1("JUMP", calc_pos - Len(s3.result))),
                            jump_pos + 1,
                            I1("JUMP0", Len(s3.result) - jump_pos)),
       !.sym = Append(s3.sym, s3.stack_pos)]

PatchWhile(s3, calc_pos, jump_pos) ==
    [s3 EXCEPT
       !.result = ReplaceAt(Append(s3.result, I1("JUMP", calc_pos - Len(s3.result))),
                            jump_pos + 1,
                            I1("JUMP0", Len(s3.result) + 1 - jump_pos)),
       !.sym = Append(s3.sym, s3.stack_pos)]

ParseLine(st, line, local_vars, all_functions) ==
    CASE line.kind = "Assignment" ->
           Line(Bind(_parse_expr(st, line.value, all_functions),
                     LAMBDA s1 : AssignmentLine(s1, line)),
                local_vars, 0)
      [] line.kind = "VariableDeclaration" ->
           Line(Bind(calc_and_alloc(st, line.variable.type, line.variable.array_size),
                     LAMBDA s1 : DeclarationLine(s1, line.variable,
                         calculate_space(line.variable.type, line.variable.array_size))),
                local_vars \cup {line.variable.name},
                calculate_space(line.variable.type, line.variable.array_size))
      [] line.kind = "IfExpression" ->
           Line(Bind(_parse_expr(st, line.condition, all_functions),
                     LAMBDA s1 :
                       Bind(_parse_body(CondJump(s1), line.body, all_functions),
                            LAMBDA s3 : PatchIf(s3, Len(s1.result)))),
                local_vars, 0)
      [] line.kind = "WhileExpression" ->
           Line(Bind(_parse_expr(st, line.condition, all_functions),
                     LAMBDA s1 :
                       Bind(_parse_body(CondJump(s1), line.body, all_functions),
                            LAMBDA s3 : PatchWhile(s3, Len(st.result), Len(s1.result)))),
                local_vars, 0)
      [] OTHER -> Line(st, local_vars, 0)

\* the loop of _parse_body, then its _clean_stack(local_vars)
ParseLines(st, body, local_vars, declared, all_functions) ==
    IF body = <<>>
    THEN [st |-> _clean_stack(st, SumSizes(st.var_stack_sizes, local_vars)),
          declared |-> declared,
          popped |-> SumSizes(st.var_stack_sizes, local_vars)]
    ELSE Bind(ParseLine(st, Head(body), local_vars, all_functions),
              LAMBDA r : ParseLines(r.st, Tail(body), r.lv, declared + r.dw, all_functions))

_parse_body(st, body, all_functions) ==
    Bind(ParseLines(st, body, {}, 0, all_functions),
         LAMBDA r :
           [r.st EXCEPT !.blocks = Append(r.st.blocks,
               [first |-> Len(st.result), last |-> Len(r.st.result),
                entry |-> st.stack_pos, exit |-> r.st.stack_pos,
                declared |-> r.declared, popped |-> r.popped])])

\* one iteration of the loop over function.parameters
BindParam(st, p, space) ==
    [st EXCEPT
       !.var_stack_positions = Put(st.var_stack_positions, p.name, st.stack_pos - space + 1),
       !.var_stack_sizes = Put(st.var_stack_sizes, p.name, space),
       !.stack_pos = st.stack_pos + space]

RECURSIVE BindParams(_, _)
BindParams(st, parameters) ==
    IF parameters = <<>> THEN st
    ELSE BindParams(BindParam(st, Head(parameters),
                              calculate_space(Head(parameters).type,
                                              Head(parameters).array_size)),
                    Tail(parameters))

ParamNames(parameters) == [k \in 1..Len(parameters) |-> parameters[k].name]

\* self.var_stack_positions['result'], self.var_stack_sizes['result']
BindResult(st, result_size) ==
    [st EXCEPT !.var_stack_positions = Put(st.var_stack_positions, "result", -1 - result_size),
               !.var_stack_sizes = Put(st.var_stack_sizes, "result", result_size)]

\* the tail of parse_function: parameters cleaned, EXIT or RETURN appended
Epilogue(s2, function) ==
    Emit(_clean_stack(s2, SumSizesSeq(s2.var_stack_sizes, ParamNames(function.parameters))),
         IF function.name = "main" THEN I0("EXIT") ELSE I0("RETURN"))

\* parse_function also reports the variable table as it stands when the
\* body is entered (frame) next to the instruction list
parse_function(function, all_functions) ==
    Bind(BindParams(BindResult(NewTranslator,
                       calculate_space(function.return_type, function.return_array_size)),
                    function.parameters),
         LAMBDA s1 :
           [Epilogue(_parse_body(s1, function.body, all_functions), function)
              EXCEPT !.frame = [positions |-> s1.var_stack_positions,
                                sizes |-> s1.var_stack_sizes,
                                stack_pos |-> s1.stack_pos]])

(***************************************************************************)
(* soflang/asm.py: TinyTranslator.translate.  Next to the instruction list *)
(* the model keeps function_starts and, per instruction, the name of the   *)
(* function it was emitted for and the translator's stack_pos (sym).       *)
(***************************************************************************)
AllFunctions(functions) ==
    [n \in {functions[k].name : k \in 1..Len(functions)} |->
        functions[CHOOSE k \in 1..Len(functions) :
                     /\ functions[k].name = n
                     /\ \A j \in 1..Len(functions) : functions[j].name = n => j <= k]]

translate_one(function, all_functions) == parse_function(function, all_functions)

ShiftBlocks(blocks, name, off) ==
    [k \in 1..Len(blocks) |->
        [fn |-> name, first |-> blocks[k].first + off, last |-> blocks[k].last + off,
         entry |-> blocks[k].entry, exit |-> blocks[k].exit,
         declared |-> blocks[k].declared, popped |-> blocks[k].popped]]

Extend(acc, function, all_functions) ==
    Bind(translate_one(function, all_functions),
         LAMBDA t :
           [acc EXCEPT
              !.result = acc.result \o t.result,
              !.placed = acc.placed \o t.result,
              !.sym = acc.sym \o t.sym,
              !.owner = acc.owner \o [k \in 1..Len(t.result) |-> function.name],
              !.blocks = acc.blocks \o ShiftBlocks(t.blocks, function.name, Len(acc.result)),
              !.frames = Put(acc.frames, function.name, t.frame)])

RECURSIVE TranslateRest(_, _, _)
TranslateRest(acc, functions, all_functions) ==
    IF functions = <<>> THEN acc
    ELSE IF Head(functions).name = "main"
    THEN TranslateRest(acc, Tail(functions), all_functions)
    ELSE TranslateRest(
           Extend([acc EXCEPT !.function_starts =
                       Put(acc.function_starts, Head(functions).name, Len(acc.result))],
                  Head(functions), all_functions),
           Tail(functions), all_functions)

\* a final pass that resolves every placeholder to the instruction after the entry
PatchJumps_OffByOne(result, function_starts) ==
    [k \in 1..Len(result) |->
        IF result[k].op = "TJUMPA" THEN I1("JUMPA", function_starts[result[k].f] + 1)
        ELSE result[k]]

\* the final pass over result: every TempJumpAI becomes JumpAI(function_starts[f])
PatchJumps(result, function_starts) ==
    [k \in 1..Len(result) |->
        IF result[k].op = "TJUMPA" THEN I1("JUMPA", function_starts[result[k].f])
        ELSE result[k]]

NewProgram ==
    [result |-> <<>>, placed |-> <<>>, sym |-> <<>>, owner |-> <<>>,
     blocks |-> <<>>, frames |-> [x \in {} |-> 0],
     function_starts |-> [x \in {"main"} |-> 0]]

translate(functions) ==
    Bind(TranslateRest(Extend(NewProgram, AllFunctions(functions)["main"],
                              AllFunctions(functions)),
                       functions, AllFunctions(functions)),
         LAMBDA acc : [acc EXCEPT !.result = PatchJumps(acc.result, acc.function_starts)])

(***************************************************************************)
(* The typed AST the translator consumes (the dataclasses it imports from  *)
(* soflang/analyzer.py) and the source programs explored.                  *)
(***************************************************************************)
IntegerLiteral(v) == [kind |-> "Atom", value |-> [kind |-> "IntegerLiteral", value |-> v]]
IdentifierExpr(n) == [kind |-> "Atom", value |-> [kind |-> "IdentifierExpr", name |-> n]]
IntIndex(k) == [kind |-> "int", int |-> k, name |-> ""]
StrIndex(n) == [kind |-> "str", int |-> 0, name |-> n]
ArrayIndex(v, index) == [kind |-> "ArrayIndex", var_name |-> v, index |-> index]
ArrayAtom(v, index) == [kind |-> "Atom", value |-> ArrayIndex(v, index)]
FunctionCall(n, params) ==
    [kind |-> "Atom", value |-> [kind |-> "FunctionCall", name |-> n, parameters |-> params]]
GeneralExpr(l, op, r) == [kind |-> "GeneralExpr", left |-> l, op |-> op, right |-> r]
UnaryExpr(e) == [kind |-> "UnaryExpr", op |-> "~", operand |-> e]
Variable(n, type, array_size) == [name |-> n, type |-> type, array_size |-> array_size]
Num(n) == Variable(n, "NUM", 0)
Arr(n, k) == Variable(n, "ARRAY", k)
VariableDeclaration(var) == [kind |-> "VariableDeclaration", variable |-> var]
Assignment(n, e) == [kind |-> "Assignment", target |-> [kind |-> "str", name |-> n], value |-> e]
AssignmentAt(v, index, e) ==
    [kind |-> "Assignment", target |-> ArrayIndex(v, index), value |-> e]
IfExpression(c, body) == [kind |-> "IfExpression", condition |-> c, body |-> body]
WhileExpression(c, body) == [kind |-> "WhileExpression", condition |-> c, body |-> body]
Function(n, rt, rs, params, body) ==
    [name |-> n, return_type |-> rt, return_array_size |-> rs,
     parameters |-> params, body |-> body]
Main(body) == Function("main", "NUM", 0, <<>>, body)

Programs ==
  << \* 1: result = 54
     << Main(<< Assignment("result", IntegerLiteral(54)) >>) >>,
     \* 2: a local, a binary expression
     << Main(<< VariableDeclaration(Num("x")),
                Assignment("x", GeneralExpr(IntegerLiteral(2), "+", IntegerLiteral(3))),
                Assignment("result", GeneralExpr(IdentifierExpr("x"), "*", IdentifierExpr("x"))) >>) >>,
     \* 3: a loop with a local declared in its body
     << Main(<< VariableDeclaration(Num("n")),
                Assignment("n", IntegerLiteral(2)),
                Assignment("result", IntegerLiteral(1)),
                WhileExpression(IdentifierExpr("n"),
                  << VariableDeclaration(Num("t")),
                     Assignment("t", GeneralExpr(IdentifierExpr("result"), "+", IdentifierExpr("n"))),
                     Assignment("result", IdentifierExpr("t")),
                     Assignment("n", GeneralExpr(IdentifierExpr("n"), "-", IntegerLiteral(1))) >>) >>) >>,
     \* 4: an array, literal and variable indices
     << Main(<< VariableDeclaration(Arr("a", 3)),
                AssignmentAt("a", IntIndex(0), IntegerLiteral(1)),
                AssignmentAt("a", IntIndex(1), IntegerLiteral(2)),
                VariableDeclaration(Num("i")),
                Assignment("i", IntegerLiteral(2)),
                AssignmentAt("a", StrIndex("i"), IntegerLiteral(3)),
                Assignment("i", IntegerLiteral(1)),
                Assignment("result", ArrayAtom("a", StrIndex("i"))) >>) >>,
     \* 5: a conditional with a local, the same name declared twice in one block
     << Main(<< VariableDeclaration(Num("c")),
                Assignment("c", UnaryExpr(IntegerLiteral(0))),
                IfExpression(IdentifierExpr("c"),
                  << VariableDeclaration(Num("t")),
                     VariableDeclaration(Arr("t", 2)),
                     AssignmentAt("t", IntIndex(1), IntegerLiteral(7)),
                     Assignment("result", ArrayAtom("t", IntIndex(1))) >>),
                Assignment("result", GeneralExpr(IdentifierExpr("result"), "/", IntegerLiteral(2))) >>) >>,
     \* 6: a call without arguments; main is not the first function
     << Function("seven", "NUM", 0, <<>>, << Assignment("result", IntegerLiteral(7)) >>),
        Main(<< Assignment("result", FunctionCall("seven", <<>>)) >>),
        Function("idle", "NUM", 0, <<>>, <<>>) >>,
     \* 7: a call with two arguments, a statement after the call
     << Main(<< VariableDeclaration(Num("a")),
                VariableDeclaration(Num("b")),
                Assignment("a", IntegerLiteral(2)),
                Assignment("b", IntegerLiteral(3)),
                Assignment("result", FunctionCall("add", <<"a", "b">>)),
                Assignment("a", IdentifierExpr("result")) >>),
        Function("add", "NUM", 0, << Num("x"), Num("y") >>,
                 << Assignment("result", GeneralExpr(IdentifierExpr("x"), "+", IdentifierExpr("y"))) >>) >>,
     \* 8: an array parameter written by the callee
     << Main(<< VariableDeclaration(Arr("a", 3)),
                VariableDeclaration(Num("r")),
                Assignment("r", IntegerLiteral(5)),
                Assignment("result", FunctionCall("fill", <<"a">>)) >>),
        Function("fill", "NUM", 0, << Arr("arr", 3) >>,
                 << AssignmentAt("arr", IntIndex(0), IntegerLiteral(9)) >>) >>
  >>

(***************************************************************************)
(* soflang/asm_ops.py: the instruction set of the virtual machines and its *)
(* byte encoding.  A raised exception is None.                             *)
(***************************************************************************)
OpCode(op) ==
    CASE op = "ADD" -> 48 [] op = "SUB" -> 49 [] op = "MUL" -> 50 [] op = "DIV" -> 51
      [] op = "INV" -> 52 [] op = "PUSH" -> 53 [] op = "POP" -> 54 [] op = "STORE" -> 55
      [] op = "DSTORE" -> 56 [] op = "LOAD" -> 57 [] op = "DLOAD" -> 58
      [] op = "JUMP" -> 59 [] op = "JUMP0" -> 60 [] op = "JUMPA" -> 61
      [] op = "DUMP" -> 62 [] op = "RETURN" -> 63 [] op = "ALLOC" -> 64
      [] op = "CRASH" -> 65 [] op = "NOOP" -> 66 [] op = "LESS" -> 67
      [] op = "EXIT" -> 255

\* the width in bytes of the immediate each binarify() passes
ArgLen(op) ==
    CASE op = "PUSH" -> 4
      [] op = "POP" -> 1
      [] op \in {"STORE", "LOAD", "JUMP", "JUMP0", "JUMPA", "DUMP", "ALLOC"} -> 2
      [] OTHER -> 0

\* max_val - 1 for an immediate of l bytes (max_val = 1 << (8 * l - 1))
MaxMagnitude(l) == (Pow2(8 * l - 2) - 1) * 2 + 1

\* an encoding that leaves the sign bit out
ArgByte_NoSign(l, val, j) ==
    ((IF val < 0 THEN -val ELSE val) \div Pow2(8 * (l - 1 - j))) % 256
\* byte j (0 = first) of the l-byte immediate: the magnitude, most
\* significant byte first, max_val or'ed in when val is negative
ArgByte(l, val, j) ==
    (((IF val < 0 THEN -val ELSE val) \div Pow2(8 * (l - 1 - j))) % 256)
    + (IF val < 0 /\ j = 0 THEN 128 ELSE 0)

ArgBytes(l, val) == [j \in 1..l |-> ArgByte(l, val, j - 1)]

\* binarify_instruction for the one-immediate (or no-immediate) argument
\* lists the instruction classes pass; assert abs(val) < max_val
binarify_instruction(code, l, val) ==
    IF l = 0 THEN <<code>>
    ELSE IF val > MaxMagnitude(l) \/ val < -MaxMagnitude(l) THEN None
    ELSE <<code>> \o ArgBytes(l, val)

\* Instruction.binarify of every class, and bin_size of __post_init__
binarify(i) == binarify_instruction(OpCode(i.op), ArgLen(i.op), i.arg)
bin_size(i) == Len(binarify(i))

\* an instruction object exists only if its __post_init__ did not raise
Constructible(i) == binarify(i) # None

\* an ip that counts instructions whatever the source
inc_ip_ByOne(i, ec) == [ec EXCEPT !.ip = ec.ip + 1]
\* Instruction.inc_ip
inc_ip(i, ec) ==
    [ec EXCEPT !.ip = ec.ip + (IF ec.binary_source THEN bin_size(i) ELSE 1)]

\* StoreI.apply: dest_pos is taken from sp before the value is popped
dest_pos_AfterPop(ec, relative_position) == ec.sp - 1 - relative_position
dest_pos(ec, relative_position) == ec.sp - relative_position

\* apply() of every instruction class
apply(i, ec) ==
    LET a == top(ec)
        e1 == pop(ec)
        b == top(e1)
        e2 == pop(e1)
    IN CASE i.op = "ADD" -> inc_ip(i, push(e2, a + b))
         [] i.op = "SUB" -> inc_ip(i, push(e2, b - a))
         [] i.op = "MUL" -> inc_ip(i, push(e2, a * b))
         [] i.op = "DIV" -> IF a = 0 THEN fail(ec)
                            ELSE inc_ip(i, push(e2, FloorDiv(b, a)))
         [] i.op = "INV" -> inc_ip(i, push(e1, IF a # 0 THEN 0 ELSE 1))
         [] i.op = "PUSH" -> inc_ip(i, push(ec, i.arg))
         [] i.op = "POP" -> inc_ip(i, popN(ec, i.arg))
         [] i.op = "STORE" -> inc_ip(i, store(e1, dest_pos(ec, i.arg), a))
         [] i.op = "DSTORE" -> inc_ip(i, store(e2, ec.sp - a, b))
         [] i.op = "LOAD" ->
              IF ~ValidIdx(ec.sp - i.arg) THEN fail(ec)
              ELSE inc_ip(i, push(ec, load(ec, ec.sp - i.arg)))
         [] i.op = "DLOAD" ->
              IF ~ValidIdx(ec.sp - a) THEN fail(ec)
              ELSE inc_ip(i, push(e1, load(e1, ec.sp - a)))
         [] i.op = "JUMP" -> [ec EXCEPT !.ip = ec.ip + i.arg]
         [] i.op = "JUMP0" -> IF a = 0 THEN [e1 EXCEPT !.ip = ec.ip + i.arg]
                              ELSE inc_ip(i, e1)
         [] i.op = "JUMPA" -> [ec EXCEPT !.ip = i.arg]
         [] i.op = "DUMP" -> inc_ip(i, push(ec, ec.ip + i.arg))
         [] i.op = "RETURN" -> [e1 EXCEPT !.ip = a]
         [] i.op = "ALLOC" -> inc_ip(i, pushZeros(ec, i.arg))
         [] i.op = "NOOP" -> inc_ip(i, ec)
         [] i.op = "LESS" -> inc_ip(i, push(e2, IF b < a THEN 1 ELSE 0))
         [] OTHER -> fail(ec)

(***************************************************************************)
(* soflang/binarify.py.  prefix_shift[k] (a Python list of n + 1 entries)  *)
(* is prefix_shift[k + 1] here.                                            *)
(***************************************************************************)
RECURSIVE prefix_shift(_, _)
prefix_shift(instructions, k) ==
    IF k = 0 THEN <<0>>
    ELSE Bind(prefix_shift(instructions, k - 1),
              LAMBDA ps : Append(ps, ps[Len(ps)] + bin_size(instructions[k])))

\* Python list indexing: -len .. len - 1, negative indices count from the end
InRange(seq, k) == k >= -Len(seq) /\ k < Len(seq)
At(seq, k) == IF k < 0 THEN seq[k + Len(seq) + 1] ELSE seq[k + 1]

\* what stands for an instruction whose construction or decoding raised
Raised == [op |-> "raised", arg |-> 0, f |-> ""]

\* the instruction written for instruction i (0-based): jumps are corrected
\* to byte positions
fixed_instr(instr, i, ps) ==
    CASE instr.op \in {"JUMP", "JUMP0", "DUMP"} ->
           IF ~InRange(ps, i + instr.arg) THEN Raised
           ELSE I1(instr.op, At(ps, i + instr.arg) - At(ps, i))
      [] instr.op = "JUMPA" ->
           IF ~InRange(ps, instr.arg) THEN Raised
           ELSE I1("JUMPA", At(ps, instr.arg))
      [] OTHER -> instr

\* fixed_instr.binarify(), None when the corrected instruction cannot be built
FixedBytes(instr, i, ps) ==
    Bind(fixed_instr(instr, i, ps),
         LAMBDA fi : IF fi = Raised THEN None ELSE binarify(fi))

RECURSIVE EncodeFrom(_, _, _, _)
EncodeFrom(instructions, ps, i, acc) ==
    IF i >= Len(instructions) \/ ~acc.ok THEN acc
    ELSE Bind(FixedBytes(instructions[i + 1], i, ps),
              LAMBDA fb : EncodeFrom(instructions, ps, i + 1,
                                     [ok |-> fb # None, bs |-> acc.bs \o fb]))

\* encode_binary_asm: the bytes and the starts dictionary; ok is false when
\* the construction of a corrected instruction raises
encode_binary_asm(instructions) ==
    Bind(prefix_shift(instructions, Len(instructions)),
         LAMBDA ps : Bind(EncodeFrom(instructions, ps, 0, [ok |-> TRUE, bs |-> <<>>]),
              LAMBDA r : [ok |-> r.ok, bs |-> r.bs,
                          starts |-> [o \in {ps[k] : k \in 1..Len(instructions)} |->
                                        (CHOOSE k \in 1..Len(instructions) : ps[k] = o) - 1]]))

\* the value of l bytes given most significant first: the loop of
\* decode_binary_value, with the top byte already stripped of its sign bit
RECURSIVE Magnitude(_, _, _)
Magnitude(digits, k, val) ==
    IF k > Len(digits) THEN val ELSE Magnitude(digits, k + 1, 256 * val + digits[k])

\* unsigned_to_signed(val, l): the top bit of the l-byte value is the sign,
\* the rest the magnitude.  val is given by its bytes.
unsigned_to_signed(digits, l) ==
    IF digits[1] >= 128
    THEN -Magnitude([digits EXCEPT ![1] = digits[1] - 128], 1, 0)
    ELSE Magnitude(digits, 1, 0)

\* decode_binary_value, for bytes that exist
decode_binary_value(bs, idx, l) ==
    unsigned_to_signed([j \in 1..l |-> At(bs, idx + j - 1)], l)

\* bs[b] raises IndexError outside the bytes
Readable(bs, idx, l) == \A b \in idx..(idx + l - 1) : InRange(bs, b)

OpOf(opcode) ==
    CASE opcode = 48 -> "ADD" [] opcode = 49 -> "SUB" [] opcode = 50 -> "MUL"
      [] opcode = 51 -> "DIV" [] opcode = 52 -> "INV" [] opcode = 53 -> "PUSH"
      [] opcode = 54 -> "POP" [] opcode = 55 -> "STORE" [] opcode = 56 -> "DSTORE"
      [] opcode = 57 -> "LOAD" [] opcode = 58 -> "DLOAD" [] opcode = 59 -> "JUMP"
      [] opcode = 60 -> "JUMP0" [] opcode = 61 -> "JUMPA" [] opcode = 62 -> "DUMP"
      [] opcode = 63 -> "RETURN" [] opcode = 64 -> "ALLOC" [] opcode = 65 -> "CRASH"
      [] opcode = 66 -> "NOOP" [] opcode = 67 -> "LESS" [] opcode = 255 -> "EXIT"
      [] OTHER -> "unsupported"

\* decode_binary_asm: the instruction at byte idx, Raised when it raises
decode_binary_asm(bytes, idx) ==
    IF ~InRange(bytes, idx) THEN Raised
    ELSE IF OpOf(At(bytes, idx)) = "unsupported" THEN Raised
    ELSE IF ArgLen(OpOf(At(bytes, idx))) = 0 THEN I0(OpOf(At(bytes, idx)))
    ELSE IF ~Readable(bytes, idx + 1, ArgLen(OpOf(At(bytes, idx)))) THEN Raised
    ELSE I1(OpOf(At(bytes, idx)),
            decode_binary_value(bytes, idx + 1, ArgLen(OpOf(At(bytes, idx)))))

(***************************************************************************)
(* arch/components.py.  The machine is the record of the registers of      *)
(* HoneyProcessingUnit, the cells of FurMemory that are not ZERO8, and exc, *)
(* the exception a step raised ("" when none).  components.py uses ZERO32, *)
(* ONE32, ... and ZERO8 as the numbers themselves, as they are here.  The  *)
(* methods of the unit that execute() is composed of are micro-operations: *)
(* a register move, a register load, add/sub/mul/div on reg0 and reg1 into *)
(* reg2, and the four memory accesses.                                     *)
(***************************************************************************)
memory_size == 64 * 1024

Mov(d, s_) == [k |-> "mov", d |-> d, s |-> s_, v |-> ZERO32]
Set(d, v) == [k |-> "set", d |-> d, s |-> "", v |-> v]
Op(k) == [k |-> k, d |-> "", s |-> "", v |-> ZERO32]

MemValid(idx) == to_int(idx) >= -memory_size /\ to_int(idx) < memory_size
MemKey(idx) == IF to_int(idx) < 0 THEN to_int(idx) + memory_size ELSE to_int(idx)

\* FurMemory.read8 / write8 on a valid index
read8(ram, idx) == IF MemKey(idx) \in DOMAIN ram THEN ram[MemKey(idx)] ELSE ZERO8
write8(ram, idx, value) ==
    IF value = ZERO8
    THEN [x \in (DOMAIN ram) \ {MemKey(idx)} |-> ram[x]]
    ELSE [x \in (DOMAIN ram) \cup {MemKey(idx)} |->
            IF x = MemKey(idx) THEN value ELSE ram[x]]

\* idx, idx + ONE32, idx + TWO32, idx + THREE32
Cells(idx) ==
    <<idx, Number32_add(idx, ONE32), Number32_add(idx, TWO32), Number32_add(idx, THREE32)>>
CellsValid(c) == \A j \in 1..4 : MemValid(c[j])

\* FurMemory.read32 / write32
read32(ram, idx) ==
    Bind(Cells(idx), LAMBDA c : <<read8(ram, c[1]), read8(ram, c[2]),
                                  read8(ram, c[3]), read8(ram, c[4])>>)
write32(ram, idx, value) ==
    Bind(Cells(idx),
         LAMBDA c : write8(write8(write8(write8(ram, c[1], value[1]),
                                         c[2], value[2]), c[3], value[3]), c[4], value[4]))

raise(m, e) == [m EXCEPT !.exc = e]

\* add(), sub(), mul(), div(): reg2 = reg0 <op> reg1
Alu(m, k) ==
    IF m.reg0 = None \/ m.reg1 = None THEN raise(m, "TypeError")
    ELSE CASE k = "add" -> [m EXCEPT !.reg2 = Number32_add(m.reg0, m.reg1)]
           [] k = "sub" -> [m EXCEPT !.reg2 = Number32_sub(m.reg0, m.reg1)]
           [] k = "mul" -> [m EXCEPT !.reg2 = Number32_mul(m.reg0, m.reg1)]
           [] k = "div" ->
                Bind(Number32_truediv(m.reg0, m.reg1),
                     LAMBDA q : IF q = None THEN raise(m, "ArithmeticError")
                                ELSE [m EXCEPT !.reg2 = q])
           [] k = "less" ->     \* the if of the LESS branch: ONE32 or ZERO32
                [m EXCEPT !.reg2 = IF Number32_lt(m.reg0, m.reg1) THEN ONE32 ELSE ZERO32]

\* read(), read32(), write32() of the unit, through the board
Mem(m, k) ==
    IF m.reg0 = None THEN raise(m, "AttributeError")
    ELSE CASE k = "read" ->
                IF ~MemValid(m.reg0) THEN raise(m, "IndexError")
                ELSE [m EXCEPT !.reg2 = <<ZERO8, ZERO8, ZERO8, read8(m.ram, m.reg0)>>]
           [] k = "read32" ->
                IF ~CellsValid(Cells(m.reg0)) THEN raise(m, "IndexError")
                ELSE [m EXCEPT !.reg2 = read32(m.ram, m.reg0)]
           [] k = "write32" ->
                IF m.reg1 = None THEN raise(m, "AttributeError")
                ELSE IF ~CellsValid(Cells(m.reg0)) THEN raise(m, "IndexError")
                ELSE [m EXCEPT !.ram = write32(m.ram, m.reg0, m.reg1)]

\* the last statement of fetch(): ir from reg3 and reg2
LatchIr(m) ==
    [m EXCEPT !.ir = <<m.reg3[4], m.reg2[1], m.reg2[2], m.reg2[3], m.reg2[4],
                       ZERO8, ZERO8, ZERO8>>]

\* is_zero(): reg0 == ZERO32
is_zero(m) == Number32_eq(m.reg0, ZERO32)

Micro(m, o) ==
    IF m.exc # "" THEN m
    ELSE CASE o.k = "mov" -> [m EXCEPT ![o.d] = m[o.s]]
           [] o.k = "set" -> [m EXCEPT ![o.d] = o.v]
           [] o.k \in {"add", "sub", "mul", "div", "less"} -> Alu(m, o.k)
           [] o.k \in {"read", "read32", "write32"} -> Mem(m, o.k)
           [] o.k = "ir" -> LatchIr(m)
           [] o.k = "inv" -> [m EXCEPT !.reg1 = IF is_zero(m) THEN ONE32 ELSE ZERO32]
           [] o.k = "raise" -> raise(m, "ValueError")

\* the micro-operations ops[lo .. hi] in order (the range is split in two
\* only to keep the evaluation shallow)
RECURSIVE RunFrom(_, _, _, _)
RunFrom(m, ops, lo, hi) ==
    IF hi < lo THEN m
    ELSE IF hi = lo THEN Micro(m, ops[lo])
    ELSE Bind(RunFrom(m, ops, lo, (lo + hi) \div 2),
              LAMBDA n : RunFrom(n, ops, ((lo + hi) \div 2) + 1, hi))

Run(m, ops) == Bind(m, LAMBDA n : RunFrom(n, ops, 1, Len(ops)))

\* inc_ip, inc_sp, dec_sp
cpu_inc_ip_ByOne(value) ==
    <<Mov("reg0", "ip"), Set("reg1", ONE32), Op("add"), Mov("ip", "reg2")>>

cpu_inc_ip(value) == <<Mov("reg0", "ip"), Set("reg1", value), Op("add"), Mov("ip", "reg2")>>
inc_sp(value) == <<Mov("reg0", "sp"), Set("reg1", value), Op("add"), Mov("sp", "reg2")>>
dec_sp(value) == <<Mov("reg0", "sp"), Set("reg1", value), Op("sub"), Mov("sp", "reg2")>>

\* fetch(): five bytes from ip into ir
fetch ==
    <<Mov("reg0", "ip"), Op("read"), Mov("reg3", "reg2"),
      Set("reg1", ONE32), Op("add"), Mov("reg0", "reg2"), Op("read32"), Op("ir")>>

\* the Number8 literals decode() and execute() compare ir.array[0] with
B_ADD == <<FALSE, FALSE, TRUE, TRUE, FALSE, FALSE, FALSE, FALSE>>
B_SUB == <<FALSE, FALSE, TRUE, TRUE, FALSE, FALSE, FALSE, TRUE>>
B_MUL == <<FALSE, FALSE, TRUE, TRUE, FALSE, FALSE, TRUE, FALSE>>
B_DIV == <<FALSE, FALSE, TRUE, TRUE, FALSE, FALSE, TRUE, TRUE>>
B_INV == <<FALSE, FALSE, TRUE, TRUE, FALSE, TRUE, FALSE, FALSE>>
B_PUSH == <<FALSE, FALSE, TRUE, TRUE, FALSE, TRUE, FALSE, TRUE>>
B_POP == <<FALSE, FALSE, TRUE, TRUE, FALSE, TRUE, TRUE, FALSE>>
B_STORE == <<FALSE, FALSE, TRUE, TRUE, FALSE, TRUE, TRUE, TRUE>>
B_DSTORE == <<FALSE, FALSE, TRUE, TRUE, TRUE, FALSE, FALSE, FALSE>>
B_LOAD == <<FALSE, FALSE, TRUE, TRUE, TRUE, FALSE, FALSE, TRUE>>
B_DLOAD == <<FALSE, FALSE, TRUE, TRUE, TRUE, FALSE, TRUE, FALSE>>
B_JUMP == <<FALSE, FALSE, TRUE, TRUE, TRUE, FALSE, TRUE, TRUE>>
B_JUMP0 == <<FALSE, FALSE, TRUE, TRUE, TRUE, TRUE, FALSE, FALSE>>
B_JUMPA == <<FALSE, FALSE, TRUE, TRUE, TRUE, TRUE, FALSE, TRUE>>
B_DUMP == <<FALSE, FALSE, TRUE, TRUE, TRUE, TRUE, TRUE, FALSE>>
B_RETURN == <<FALSE, FALSE, TRUE, TRUE, TRUE, TRUE, TRUE, TRUE>>
B_ALLOC == <<FALSE, TRUE, FALSE, FALSE, FALSE, FALSE, FALSE, FALSE>>
B_CRASH == <<FALSE, TRUE, FALSE, FALSE, FALSE, FALSE, FALSE, TRUE>>
B_NOOP == <<FALSE, TRUE, FALSE, FALSE, FALSE, FALSE, TRUE, FALSE>>
B_LESS == <<FALSE, TRUE, FALSE, FALSE, FALSE, FALSE, TRUE, TRUE>>
B_END == <<TRUE, TRUE, TRUE, TRUE, TRUE, TRUE, TRUE, TRUE>>

\* decode(): the immediate into reg0
Imm16(m) == <<ZERO8, ZERO8, m.ir[2], m.ir[3]>>

decode(m) ==
    IF m.exc # "" THEN m
    ELSE CASE Number8_eq(m.ir[1], B_PUSH) ->
                [m EXCEPT !.reg0 = <<m.ir[2], m.ir[3], m.ir[4], m.ir[5]>>]
           [] Number8_eq(m.ir[1], B_POP) ->
                [m EXCEPT !.reg0 = <<ZERO8, ZERO8, ZERO8, m.ir[2]>>]
           [] Number8_eq(m.ir[1], B_STORE) -> [m EXCEPT !.reg0 = Imm16(m)]
           [] Number8_eq(m.ir[1], B_LOAD) -> [m EXCEPT !.reg0 = Imm16(m)]
           [] Number8_eq(m.ir[1], B_JUMP) -> [m EXCEPT !.reg0 = extend_from_num16(Imm16(m))]
           [] Number8_eq(m.ir[1], B_JUMP0) -> [m EXCEPT !.reg0 = Imm16(m)]
           [] Number8_eq(m.ir[1], B_JUMPA) -> [m EXCEPT !.reg0 = Imm16(m)]
           [] Number8_eq(m.ir[1], B_DUMP) -> [m EXCEPT !.reg0 = Imm16(m)]
           [] Number8_eq(m.ir[1], B_ALLOC) -> [m EXCEPT !.reg0 = Imm16(m)]
           [] OTHER -> m

read_two_args_from_ram ==
    dec_sp(FOUR32) \o <<Mov("reg0", "sp"), Op("read32"), Mov("reg3", "reg2")>>
    \o dec_sp(FOUR32) \o <<Mov("reg0", "sp"), Op("read32"),
                           Mov("reg0", "reg2"), Mov("reg1", "reg3")>>

\* the tail shared by the binary operators: the result is pushed
PushReg2 ==
    <<Mov("reg0", "sp"), Mov("reg1", "reg2"), Op("write32")>>
    \o inc_sp(FOUR32) \o cpu_inc_ip(ONE32)

\* address = sp - FOUR32 * reg1 into reg2
Scale == <<Set("reg0", FOUR32), Mov("reg1", "reg2"), Op("mul"),
           Mov("reg0", "sp"), Mov("reg1", "reg2"), Op("sub")>>

\* the straight-line branches of execute()
Branch(op) ==
    CASE op = B_ADD -> read_two_args_from_ram \o <<Op("add")>> \o PushReg2
      [] op = B_SUB -> read_two_args_from_ram \o <<Op("sub")>> \o PushReg2
      [] op = B_MUL -> read_two_args_from_ram \o <<Op("mul")>> \o PushReg2
      [] op = B_DIV -> read_two_args_from_ram \o <<Op("div")>> \o PushReg2
      [] op = B_LESS -> read_two_args_from_ram \o <<Op("less")>> \o PushReg2
      [] op = B_INV ->
           dec_sp(FOUR32)
           \o <<Mov("reg0", "sp"), Op("read32"), Mov("reg0", "reg2"), Op("inv"),
                Mov("reg0", "sp"), Op("write32")>>
           \o inc_sp(FOUR32) \o cpu_inc_ip(ONE32)
      [] op = B_PUSH ->
           <<Mov("reg1", "reg0"), Mov("reg0", "sp"), Op("write32")>>
           \o inc_sp(FOUR32) \o cpu_inc_ip(FIVE32)
      [] op = B_POP ->
           <<Set("reg1", FOUR32), Op("mul"), Mov("reg0", "sp"), Mov("reg1", "reg2"),
             Op("sub"), Mov("sp", "reg2")>>
           \o cpu_inc_ip(TWO32)
      [] op = B_STORE ->
           <<Set("reg1", ONE32), Op("add")>> \o Scale \o <<Mov("reg3", "reg2")>>
           \o dec_sp(FOUR32)
           \o <<Mov("reg0", "sp"), Op("read32"), Mov("reg0", "reg3"),
                Mov("reg1", "reg2"), Op("write32")>>
           \o cpu_inc_ip(THREE32)
      [] op = B_DSTORE ->
           dec_sp(FOUR32) \o <<Mov("reg0", "sp"), Op("read32")>> \o Scale
           \o <<Mov("reg3", "reg2")>> \o dec_sp(FOUR32)
           \o <<Mov("reg0", "sp"), Op("read32"), Mov("reg0", "reg3"),
                Mov("reg1", "reg2"), Op("write32")>>
           \o cpu_inc_ip(ONE32)
      [] op = B_LOAD ->
           <<Set("reg1", ONE32), Op("add")>> \o Scale
           \o <<Mov("reg0", "reg2"), Op("read32"), Mov("reg0", "sp"),
                Mov("reg1", "reg2"), Op("write32")>>
           \o inc_sp(FOUR32) \o cpu_inc_ip(THREE32)
      [] op = B_DLOAD ->
           dec_sp(FOUR32) \o <<Mov("reg0", "sp"), Op("read32")>> \o Scale
           \o <<Mov("reg0", "reg2"), Op("read32"), Mov("reg0", "sp"),
                Mov("reg1", "reg2"), Op("write32")>>
           \o inc_sp(FOUR32) \o cpu_inc_ip(ONE32)
      [] op = B_JUMP -> <<Mov("reg1", "ip"), Op("add"), Mov("ip", "reg2")>>
      [] op = B_JUMPA -> <<Mov("ip", "reg0")>>
      [] op = B_DUMP ->
           <<Mov("reg1", "ip"), Op("add"), Mov("reg1", "reg2"), Mov("reg0", "sp"),
             Op("write32")>>
           \o inc_sp(FOUR32) \o cpu_inc_ip(THREE32)
      [] op = B_RETURN ->
           dec_sp(FOUR32) \o <<Mov("reg0", "sp"), Op("read32"), Mov("ip", "reg2")>>
      [] op = B_NOOP -> cpu_inc_ip(ONE32)
      [] OTHER -> <<Op("raise")>>      \* CRASH, the end, unsupported

\* JUMP0: the popped value decides between the jump and inc_ip(THREE32)
Jump0Tail(m) ==
    IF m.exc # "" THEN m
    ELSE IF is_zero(m)
    THEN Run(m, <<Mov("reg0", "ip"), Mov("reg1", "reg3"), Op("add"), Mov("ip", "reg2")>>)
    ELSE Run(m, cpu_inc_ip(THREE32))

\* ALLOC: one zero word pushed per turn of the loop, until reg0 is zero
RECURSIVE AllocLoop(_)
AllocLoop(m) ==
    IF m.exc # "" THEN m
    ELSE IF is_zero(m) THEN Run(m, cpu_inc_ip(THREE32))
    ELSE Bind(Run(m, <<Mov("reg3", "reg0"), Mov("reg0", "sp"), Set("reg1", ZERO32),
                       Op("write32")>>
                     \o inc_sp(FOUR32)
                     \o <<Mov("reg0", "reg3"), Set("reg1", ONE32), Op("sub"),
                          Mov("reg0", "reg2")>>),
              LAMBDA n : AllocLoop(n))

execute(m) ==
    IF m.exc # "" THEN m
    ELSE CASE Number8_eq(m.ir[1], B_JUMP0) ->
                Bind(Run(m, <<Mov("reg3", "reg0")>> \o dec_sp(FOUR32)
                            \o <<Mov("reg0", "sp"), Op("read32"), Mov("reg0", "reg2")>>),
                     LAMBDA n : Jump0Tail(n))
           [] Number8_eq(m.ir[1], B_ALLOC) -> AllocLoop(m)
           [] OTHER -> Run(m, Branch(m.ir[1]))

\* the exception of the last branches of execute()
EndOrFault(m) ==
    IF m.exc # "ValueError" THEN m.exc
    ELSE IF Number8_eq(m.ir[1], B_END) THEN "end"
    ELSE IF Number8_eq(m.ir[1], B_CRASH) THEN "crash"
    ELSE "unsupported"

\* cycle() / Bearboard.step_program
cycle(m) ==
    Bind(Run(m, fetch),
         LAMBDA f : Bind(decode(f),
              LAMBDA d : Bind(execute(d),
                   LAMBDA e : [e EXCEPT !.exc = EndOrFault(e)])))

\* Bearboard.load_program: the bytes at 0.., the stack after 200 free words
\* the cells after memory.write8(num32_from_int(i), instructions[i]) for every i
LoadBytes(bs) ==
    [x \in {i \in 0..(Len(bs) - 1) : bs[i + 1] # 0} |-> num8_from_int(bs[x + 1])]

stack_start(total_instructions) ==
    total_instructions + (4 - (total_instructions % 4)) + 200 * 4

load_program(bs) ==
    [ip |-> ZERO32, sp |-> num32_from_int(stack_start(Len(bs))),
     reg0 |-> ZERO32, reg1 |-> ZERO32, reg2 |-> ZERO32, reg3 |-> ZERO32,
     ir |-> <<ZERO8, ZERO8, ZERO8, ZERO8, ZERO8, ZERO8, ZERO8, ZERO8>>,
     ram |-> LoadBytes(bs), exc |-> ""]

(***************************************************************************)
(* Instruction lists for the machines: every instruction class, immediates *)
(* of both signs, both outcomes of JUMP0, a call and its return.           *)
(***************************************************************************)
Listings ==
  << \* 1: arithmetic and comparison
     << I1("PUSH", 5), I1("PUSH", 3), I0("ADD"), I1("PUSH", 2), I0("MUL"),
        I1("PUSH", 10), I0("LESS"), I0("INV"), I0("NOOP"), I0("EXIT") >>,
     \* 2: a negative literal
     << I1("PUSH", -1), I0("EXIT") >>,
     \* 3: static and dynamic loads and stores
     << I1("ALLOC", 2), I1("PUSH", 7), I1("STORE", 1), I1("LOAD", 0), I1("PUSH", 1),
        I0("DLOAD"), I1("PUSH", 9), I1("PUSH", 2), I0("DSTORE"), I1("POP", 1),
        I0("EXIT") >>,
     \* 4: a countdown loop, JUMP0 forwards and JUMP backwards
     << I1("PUSH", 3), I1("LOAD", 0), I1("JUMP0", 4), I1("PUSH", 1), I0("SUB"),
        I1("JUMP", -4), I0("EXIT") >>,
     \* 5: a call in the convention of DUMP / JUMPA / RETURN
     << I1("ALLOC", 1), I1("DUMP", 2), I1("JUMPA", 4), I0("EXIT"),
        I1("PUSH", 7), I1("STORE", 2), I0("RETURN") >>,
     \* 6: division, of a positive and of a negative dividend
     << I1("PUSH", 7), I1("PUSH", 2), I0("DIV"), I1("PUSH", 0), I1("PUSH", 7),
        I0("SUB"), I1("PUSH", 2), I0("DIV"), I0("EXIT") >>,
     \* 7: JUMP0 not taken, JUMP forwards
     << I1("PUSH", 1), I1("JUMP0", 2), I1("JUMP", 2), I0("CRASH"), I0("EXIT") >>,
     \* 8: CRASH
     << I1("PUSH", 3), I0("CRASH"), I0("EXIT") >>,
     \* 9: a negative value computed, then compared
     << I1("PUSH", 0), I1("PUSH", 5), I0("SUB"), I1("PUSH", 3), I0("LESS"),
        I0("EXIT") >>,
     \* 10: literals at the ends of the 4-byte range
     << I1("PUSH", 2147483647), I1("PUSH", -2147483647), I1("PUSH", -256),
        I1("POP", 3), I0("EXIT") >>,
     \* 11: two calls of one function that doubles its argument
     << I1("ALLOC", 1), I1("DUMP", 3), I1("PUSH", 4), I1("JUMPA", 11),
        I1("ALLOC", 1), I1("DUMP", 3), I1("LOAD", 2), I1("JUMPA", 11),
        I1("STORE", 1), I1("POP", 0), I0("EXIT"),
        I1("LOAD", 0), I1("PUSH", 2), I0("MUL"), I1("STORE", 3), I1("POP", 1),
        I0("RETURN") >>,
     \* 12: a call made above an address that DUMP pushed and nothing uses
     << I1("DUMP", 1), I1("ALLOC", 1), I1("DUMP", 2), I1("JUMPA", 5), I0("EXIT"),
        I1("PUSH", 7), I1("STORE", 2), I0("RETURN") >>,
     \* 13: an address that DUMP pushed, used as a number
     << I1("DUMP", 1), I1("PUSH", 1), I0("SUB"), I1("JUMP0", 2), I0("NOOP"),
        I0("EXIT") >>,
     \* 14: a jump to before the first instruction
     << I0("NOOP"), I1("JUMP", -3), I0("EXIT") >>,
     \* 15: a division by zero
     << I1("PUSH", 1), I1("PUSH", 0), I0("DIV"), I0("EXIT") >>,
     \* 16: no EXIT, the byte after the last instruction is not an opcode
     << I0("NOOP") >>,
     \* 17: immediates of two bytes, one of them negative
     << I1("ALLOC", 3), I1("PUSH", 4), I1("LOAD", 1), I1("STORE", 2),
        I1("PUSH", 6), I1("STORE", -1), I1("PUSH", 0), I1("JUMP0", 1), I0("EXIT") >>
  >>

(***************************************************************************)
(* State: a source program is translated, then run by the loop of          *)
(* LionVM.run_abstract over the instruction list.  calls, bases and ev     *)
(* observe the run: calls holds one record per call site entered and not   *)
(* yet returned from, bases the frame base (stack index of offset 0) of    *)
(* every active function, ev what the last step did.                       *)
(***************************************************************************)
VARIABLES phase, src, tr, ec, nsteps, calls, bases, ev

(***************************************************************************)
(* State of a run of one instruction list on the three machines: listing   *)
(* is the list, image what encode_binary_asm made of it, listvm and binvm  *)
(* the contexts of LionVM.run and LionVM.run_binary with their status,     *)
(* board the Bearboard of run_with_cpu_simulation, turn whose step is      *)
(* next, cycles the number of steps taken, decoded what the last decode()   *)
(* of the processor left in reg0 and where it had fetched, stdout what     *)
(* run_with_cpu_simulation has written.                                    *)
(***************************************************************************)
VARIABLES listing, image, listvm, binvm, board, turn, cycles, decoded, stdout

(***************************************************************************)
(* State of one arithmetic operation: operands is the pair of 32-bit       *)
(* numbers, arith the operation applied to it with its result.             *)
(***************************************************************************)
VARIABLES operands, arith

(***************************************************************************)
(* State of one reading of an assembly text: written is the instruction    *)
(* list the text was written from (empty for a text written by hand),      *)
(* lines the text, line by line, each a sequence of characters, parsed     *)
(* what parse_asm returned or that it raised.                              *)
(***************************************************************************)
VARIABLES written, lines, parsed

(***************************************************************************)
(* State of one run of recursive_parse: files is the file system (the      *)
(* parsed text of every source file, by canonical path), initial_path the  *)
(* path the run was started with, checked_paths and load_queue the two     *)
(* locals of that name, flat the local result, and loading the paths       *)
(* announced by "Loading ...", in order.                                   *)
(***************************************************************************)
VARIABLES files, initial_path, checked_paths, load_queue, flat, loading

(***************************************************************************)
(* State of one run of resolve_templates: parsed_text is its argument,     *)
(* template_decls, nontemplate_decls and resolved_template_functions the   *)
(* locals of that name (a dict is the sequence of its items, in insertion  *)
(* order), partial the local result, output the list returned, stage the   *)
(* position in the function, and expansions the mangled names for which    *)
(* resolve_template_expr went on to expand the template, in order.         *)
(***************************************************************************)
VARIABLES parsed_text, template_decls, nontemplate_decls,
          resolved_template_functions, expansions, partial, output, stage

(***************************************************************************)
(* State of one call of MilliValidator.validate: to_validate is the list   *)
(* of functions it is given, errors the list self.errors, position the     *)
(* number of functions whose bodies have been analysed, verdict whether    *)
(* the call is running, has returned the list or has raised.               *)
(***************************************************************************)
VARIABLES to_validate, errors, position, verdict

(***************************************************************************)
(* State of the encoding of one instruction: candidate holds the class and *)
(* the immediate an instruction is to be built with, encoding what         *)
(* binarify() made of it (the bytes, or that it raised), decoding what     *)
(* decode_binary_asm reads back from the bytes.                            *)
(***************************************************************************)
VARIABLES candidate, encoding, decoding

(***************************************************************************)
(* State of the run of one statement: fragment is a main body with the     *)
(* statement under observation as its last line, lowered its translation   *)
(* with the bounds of the statement's instructions, machine the execution  *)
(* context of run_abstract, at_entry and at_exit the context when          *)
(* control first reaches the first and passes the last of them.           *)
(***************************************************************************)
VARIABLES fragment, lowered, machine, at_entry, at_exit, progress

(***************************************************************************)
(* State of the debugger: debug_info is the translation result it is       *)
(* given, fox the FoxbuggerSimple object (its execution context, its list  *)
(* of live variables, its step counter and whether forward() raised).      *)
(***************************************************************************)
VARIABLES debug_info, fox

varsT == <<phase, src, tr, ec, nsteps, calls, bases, ev>>
varsX == <<listing, image, listvm, binvm, board, turn, cycles, decoded, stdout>>
varsA == <<operands, arith>>
varsP == <<written, lines, parsed>>
varsR == <<files, initial_path, checked_paths, load_queue, flat, loading>>
varsE == <<parsed_text, template_decls, nontemplate_decls, resolved_template_functions, expansions, partial, output, stage>>
varsV == <<to_validate, errors, position, verdict>>
varsB == <<candidate, encoding, decoding>>
varsS == <<fragment, lowered, machine, at_entry, at_exit, progress>>
varsD == <<debug_info, fox>>
vars == <<varsT, varsX, varsA, varsP, varsR, varsE, varsV, varsB, varsS, varsD>>

\* the values of the variables of a part that is not running
IdleT ==
    /\ phase = "idle" /\ src = <<>> /\ tr = [result |-> <<>>] /\ ec = <<>>
    /\ nsteps = 0 /\ calls = <<>> /\ bases = <<>> /\ ev = [kind |-> "none"]
IdleX ==
    /\ listing = <<>> /\ image = <<>> /\ listvm = <<>> /\ binvm = <<>>
    /\ board = <<>> /\ turn = "idle" /\ cycles = 0
    /\ decoded = <<>> /\ stdout = <<>>
IdleA == operands = <<>> /\ arith = [op |-> "idle"]

\* the parts other than the one that runs
IdleP == written = <<>> /\ lines = <<>> /\ parsed = [state |-> "idle"]
IdleR == files = <<>> /\ initial_path = <<>> /\ checked_paths = {} /\ load_queue = <<>> /\ flat = <<>> /\ loading = <<>>
IdleE == parsed_text = <<>> /\ template_decls = <<>> /\ nontemplate_decls = <<>> /\ resolved_template_functions = <<>> /\ expansions = <<>> /\ partial = <<>> /\ output = <<>> /\ stage = "idle"
IdleV == to_validate = <<>> /\ errors = <<>> /\ position = 0 /\ verdict = "idle"
IdleB == candidate = <<>> /\ encoding = <<>> /\ decoding = <<>>
IdleS == fragment = <<>> /\ lowered = <<>> /\ machine = <<>> /\ at_entry = <<>> /\ at_exit = <<>> /\ progress = "idle"
IdleD == debug_info = <<>> /\ fox = <<>>
restT == <<varsX, varsA, varsP, varsR, varsE, varsV, varsB, varsS, varsD>>
restX == <<varsT, varsA, varsP, varsR, varsE, varsV, varsB, varsS, varsD>>
restA == <<varsT, varsX, varsP, varsR, varsE, varsV, varsB, varsS, varsD>>
restP == <<varsT, varsX, varsA, varsR, varsE, varsV, varsB, varsS, varsD>>
restR == <<varsT, varsX, varsA, varsP, varsE, varsV, varsB, varsS, varsD>>
restE == <<varsT, varsX, varsA, varsP, varsR, varsV, varsB, varsS, varsD>>
restV == <<varsT, varsX, varsA, varsP, varsR, varsE, varsB, varsS, varsD>>
restB == <<varsT, varsX, varsA, varsP, varsR, varsE, varsV, varsS, varsD>>
restS == <<varsT, varsX, varsA, varsP, varsR, varsE, varsV, varsB, varsD>>
restD == <<varsT, varsX, varsA, varsP, varsR, varsE, varsV, varsB, varsS>>
IdleButT == IdleX /\ IdleA /\ IdleP /\ IdleR /\ IdleE /\ IdleV /\ IdleB /\ IdleS /\ IdleD
IdleButX == IdleT /\ IdleA /\ IdleP /\ IdleR /\ IdleE /\ IdleV /\ IdleB /\ IdleS /\ IdleD
IdleButA == IdleT /\ IdleX /\ IdleP /\ IdleR /\ IdleE /\ IdleV /\ IdleB /\ IdleS /\ IdleD
IdleButP == IdleT /\ IdleX /\ IdleA /\ IdleR /\ IdleE /\ IdleV /\ IdleB /\ IdleS /\ IdleD
IdleButR == IdleT /\ IdleX /\ IdleA /\ IdleP /\ IdleE /\ IdleV /\ IdleB /\ IdleS /\ IdleD
IdleButE == IdleT /\ IdleX /\ IdleA /\ IdleP /\ IdleR /\ IdleV /\ IdleB /\ IdleS /\ IdleD
IdleButV == IdleT /\ IdleX /\ IdleA /\ IdleP /\ IdleR /\ IdleE /\ IdleB /\ IdleS /\ IdleD
IdleButB == IdleT /\ IdleX /\ IdleA /\ IdleP /\ IdleR /\ IdleE /\ IdleV /\ IdleS /\ IdleD
IdleButS == IdleT /\ IdleX /\ IdleA /\ IdleP /\ IdleR /\ IdleE /\ IdleV /\ IdleB /\ IdleD
IdleButD == IdleT /\ IdleX /\ IdleA /\ IdleP /\ IdleR /\ IdleE /\ IdleV /\ IdleB /\ IdleS

NoEvent == [kind |-> "none"]
NewContext == [stack |-> EmptyStack, sp |-> max_result, ip |-> 0, ok |-> TRUE]

InitT ==
    /\ phase = "source"
    /\ src \in {Programs[k] : k \in 1..Len(Programs)}
    /\ tr = [result |-> <<>>]
    /\ ec = NewContext
    /\ nsteps = 0
    /\ calls = <<>>
    /\ bases = <<>>
    /\ ev = NoEvent
    /\ IdleButT

\* main.py: asm / compile_and_run call translate on the analysed functions
Translate ==
    /\ phase = "source"
    /\ tr' = translate(src)
    /\ phase' = "running"
    /\ bases' = << max_result + 1 >>
    /\ UNCHANGED <<src, ec, nsteps, calls, ev, restT>>

\* the instruction at 0-based index k of the translated list
Instr(k) == tr.result[k + 1]
ValidIp(k) == k >= -Len(tr.result) /\ k < Len(tr.result)
NormIp(k) == IF k < 0 THEN k + Len(tr.result) ELSE k
IsCallSiteAlloc(k) ==
    /\ Instr(k).op = "ALLOC"
    /\ k + 1 < Len(tr.result)
    /\ Instr(k + 1).op = "DUMP"

\* what the step at instruction k, taking context ec to e, adds to the observations
Observe(k, i, e) ==
    CASE IsCallSiteAlloc(k) ->
           /\ calls' = Append(calls, [h0 |-> ec.sp, foot |-> i.arg, snap |-> ec.stack,
                                      jumpa |-> -1])
           /\ bases' = bases
           /\ ev' = [kind |-> "site"]
      [] i.op = "JUMPA" ->
           /\ calls' = IF calls = <<>> THEN calls
                       ELSE [calls EXCEPT ![Len(calls)].jumpa = k]
           /\ bases' = Append(bases, ec.sp - tr.frames[tr.owner[i.arg + 1]].stack_pos)
           /\ ev' = [kind |-> "call"]
      [] i.op = "RETURN" ->
           /\ calls' = IF calls = <<>> THEN calls ELSE SubSeq(calls, 1, Len(calls) - 1)
           /\ bases' = IF Len(bases) <= 1 THEN bases ELSE SubSeq(bases, 1, Len(bases) - 1)
           /\ ev' = IF calls = <<>> THEN [kind |-> "return", matched |-> FALSE]
                    ELSE [kind |-> "return", matched |-> TRUE,
                          h0 |-> calls[Len(calls)].h0, foot |-> calls[Len(calls)].foot,
                          snap |-> calls[Len(calls)].snap, jumpa |-> calls[Len(calls)].jumpa]
      [] OTHER ->
           /\ UNCHANGED <<calls, bases>>
           /\ ev' = [kind |-> "step"]

\* lvm.py run_abstract: one iteration of the while loop
Step ==
    /\ phase = "running"
    /\ nsteps < MaxSteps
    /\ nsteps' = nsteps + 1
    /\ UNCHANGED <<src, tr, restT>>
    /\ IF ~ValidIp(ec.ip)
       THEN /\ phase' = "crashed"
            /\ ev' = [kind |-> "crash"]
            /\ UNCHANGED <<ec, calls, bases>>
       ELSE LET k == NormIp(ec.ip)
                i == Instr(k)
                e == ApplyAsm(i, ec)
            IN IF i.op = "EXIT"
               THEN /\ phase' = "halted"
                    /\ ev' = [kind |-> "exit"]
                    /\ UNCHANGED <<ec, calls, bases>>
               ELSE IF ~e.ok
               THEN /\ phase' = "crashed"
                    /\ ev' = [kind |-> "crash"]
                    /\ UNCHANGED <<ec, calls, bases>>
               ELSE /\ phase' = "running"
                    /\ ec' = e
                    /\ Observe(k, i, e)

NextT == Translate \/ Step

SpecT == InitT /\ [][NextT]_vars

(***************************************************************************)
(* The three machines on one instruction list.  The two virtual machines   *)
(* take their steps together, the processor its cycle in between.          *)
(***************************************************************************)
MaxCycles == 64

NewVM(binary_source) ==
    [ec |-> [stack |-> EmptyStack, sp |-> max_result, ip |-> 0, ok |-> TRUE,
             binary_source |-> binary_source],
     status |-> "running"]

InitX ==
    /\ listing \in {Listings[k] : k \in 1..Len(Listings)}
    /\ image = <<>>
    /\ listvm = <<>>
    /\ binvm = <<>>
    /\ board = <<>>
    /\ turn = "encode"
    /\ cycles = 0
    /\ decoded = <<>>
    /\ stdout = <<>>
    /\ IdleButX

\* main.py: the listing is encoded; lvm.py: run, run_binary and
\* run_with_cpu_simulation set up their machine
NewBoard(bs) == [m |-> load_program(bs), stack_start |-> stack_start(Len(bs))]

Encode ==
    /\ turn = "encode"
    /\ image' = encode_binary_asm(listing)
    /\ listvm' = NewVM(FALSE)
    /\ binvm' = NewVM(TRUE)
    /\ board' = NewBoard(image'.bs)
    /\ turn' = IF image'.ok THEN "vm" ELSE "done"
    /\ UNCHANGED <<listing, cycles, decoded, stdout, restX>>

\* the instruction getters of run and run_binary
ListFetch(x) == IF InRange(listing, x) THEN At(listing, x) ELSE Raised
BinaryFetch(x) == decode_binary_asm(image.bs, x)

\* run_abstract: one turn of the loop for the instruction i it fetched
Turn(vm, i) ==
    IF i = Raised THEN [vm EXCEPT !.status = "crashed"]
    ELSE IF i.op = "EXIT" THEN [vm EXCEPT !.status = "halted"]
    ELSE Bind(apply(i, vm.ec),
              LAMBDA e : IF e.ok THEN [vm EXCEPT !.ec = e]
                         ELSE [vm EXCEPT !.status = "crashed"])

Running(vm) == vm.status = "running"
CpuRunning(b) == b.m.exc = ""

StepVMs ==
    /\ turn = "vm"
    /\ cycles < MaxCycles
    /\ cycles' = cycles + 1
    /\ listvm' = IF Running(listvm) THEN Turn(listvm, ListFetch(listvm.ec.ip)) ELSE listvm
    /\ binvm' = IF Running(binvm) THEN Turn(binvm, BinaryFetch(binvm.ec.ip)) ELSE binvm
    /\ turn' = IF CpuRunning(board) THEN "cpu"
               ELSE IF Running(listvm') \/ Running(binvm') THEN "vm" ELSE "done"
    /\ UNCHANGED <<listing, image, board, decoded, stdout, restX>>

\* run_with_cpu_simulation: one board.step_program()
Cycle ==
    /\ turn = "cpu"
    /\ cycles < MaxCycles
    /\ cycles' = cycles + 1
    /\ board' = [board EXCEPT !.m = cycle(board.m)]
    /\ decoded' = [at |-> to_int(board.m.ip), reg0 |-> decode(Run(board.m, fetch)).reg0]
    /\ turn' = IF Running(listvm) \/ Running(binvm) THEN "vm"
               ELSE IF CpuRunning(board') THEN "cpu" ELSE "done"
    /\ UNCHANGED <<listing, image, listvm, binvm, stdout, restX>>

\* run_with_cpu_simulation, from the except clause on: the exception that
\* ended the loop is written, whichever it is, then the program memory,
\* the stack and the number of steps
Report ==
    /\ turn = "done"
    /\ board # <<>>
    /\ ~CpuRunning(board)
    /\ stdout' = << <<"Exception", board.m.exc>>, <<"Program:">>, <<"Stack:">>, <<"Steps:">> >>
    /\ turn' = "reported"
    /\ UNCHANGED <<listing, image, listvm, binvm, board, cycles, decoded, restX>>

NextX == Encode \/ StepVMs \/ Cycle \/ Report

SpecX == InitX /\ [][NextX]_vars

(***************************************************************************)
(* arch/logic.py: one arithmetic operation on a pair of 32-bit numbers,    *)
(* with the number its assert statement compares the result to.  That      *)
(* number is num32_from_int of an unbounded Python integer; it is computed *)
(* here column by column in base 256, so that no intermediate value is     *)
(* wider than the integers at hand.                                        *)
(***************************************************************************)
Corners ==
    { 0, 1, -1, 2, 255, 256, -256, 65535, 65536, 46341, -98765, 123456789,
      1073741824, 1431655765, -1431655766, 2147483647, -2147483647,
      -2147483647 - 1 }

\* the base-256 digits of to_int(x), least significant first
Digits(x) ==
    << to_int(x) % 256, (to_int(x) \div 256) % 256, (to_int(x) \div 65536) % 256,
       (to_int(x) \div 16777216) % 256 >>

\* num32_from_int(c[1] + 256 * c[2] + 65536 * c[3] + 16777216 * c[4])
Carry1(c) == c[1] \div 256
Carry2(c) == (c[2] + Carry1(c)) \div 256
Carry3(c) == (c[3] + Carry2(c)) \div 256
FromColumns(c) ==
    << num8_from_int((c[4] + Carry3(c)) % 256), num8_from_int((c[3] + Carry2(c)) % 256),
       num8_from_int((c[2] + Carry1(c)) % 256), num8_from_int(c[1] % 256) >>

\* num32_from_int(self.to_int() + other.to_int()), and so on
ExpectedAdd(a, b) ==
    Bind(<<Digits(a), Digits(b)>>,
         LAMBDA d : FromColumns([k \in 1..4 |-> d[1][k] + d[2][k]]))
ExpectedNeg(a) == Bind(Digits(a), LAMBDA d : FromColumns([k \in 1..4 |-> -d[k]]))
ExpectedSub(a, b) ==
    Bind(<<Digits(a), Digits(b)>>,
         LAMBDA d : FromColumns([k \in 1..4 |-> d[1][k] - d[2][k]]))
ExpectedMul(a, b) ==
    Bind(<<Digits(a), Digits(b)>>,
         LAMBDA d : FromColumns(<< d[1][1] * d[2][1],
                                   d[1][1] * d[2][2] + d[1][2] * d[2][1],
                                   d[1][1] * d[2][3] + d[1][2] * d[2][2] + d[1][3] * d[2][1],
                                   d[1][1] * d[2][4] + d[1][2] * d[2][3] + d[1][3] * d[2][2]
                                     + d[1][4] * d[2][1] >>))

InitA ==
    /\ operands \in {<<num32_from_int(a), num32_from_int(b)>> : a \in Corners, b \in Corners}
    /\ arith = [op |-> "none"]
    /\ IdleButA

Add ==
    /\ arith.op = "none"
    /\ arith' = [op |-> "add", res |-> Number32_add(operands[1], operands[2]),
                 expected |-> ExpectedAdd(operands[1], operands[2])]
    /\ UNCHANGED <<operands, restA>>

Neg ==
    /\ arith.op = "none"
    /\ arith' = [op |-> "neg", res |-> Number32_neg(operands[1]),
                 expected |-> ExpectedNeg(operands[1])]
    /\ UNCHANGED <<operands, restA>>

Sub ==
    /\ arith.op = "none"
    /\ arith' = [op |-> "sub", res |-> Number32_sub(operands[1], operands[2]),
                 expected |-> ExpectedSub(operands[1], operands[2])]
    /\ UNCHANGED <<operands, restA>>

Mul ==
    /\ arith.op = "none"
    /\ arith' = [op |-> "mul", res |-> Number32_mul(operands[1], operands[2]),
                 expected |-> ExpectedMul(operands[1], operands[2])]
    /\ UNCHANGED <<operands, restA>>

\* the quotient DivI.apply computes on the same operands with Python's
\* integers, where it is defined and fits 32 bits
MinInt32 == -2147483647 - 1
VmDiv(a, b) ==
    IF b = 0 \/ (a = MinInt32 /\ b = -1) THEN [defined |-> FALSE, value |-> 0]
    ELSE [defined |-> TRUE,
          value |-> IF b = MinInt32
                    THEN (IF a = MinInt32 THEN 1 ELSE IF a > 0 THEN -1 ELSE 0)
                    ELSE IF a = MinInt32 /\ b < 0
                    THEN (2147483647 \div (-b))
                           + (IF 2147483647 % (-b) = (-b) - 1 THEN 1 ELSE 0)
                    ELSE FloorDiv(a, b)]

\* components.py div(): reg0 / reg1
Div ==
    /\ arith.op = "none"
    /\ arith' = [op |-> "div", res |-> Number32_truediv(operands[1], operands[2]),
                 expected |-> VmDiv(to_int(operands[1]), to_int(operands[2]))]
    /\ UNCHANGED <<operands, restA>>

\* components.py less(): reg0 < reg1, against LessI.apply on the integers
Less ==
    /\ arith.op = "none"
    /\ arith' = [op |-> "less", res |-> Number32_lt(operands[1], operands[2]),
                 expected |-> to_int(operands[1]) < to_int(operands[2])]
    /\ UNCHANGED <<operands, restA>>

NextA == Add \/ Neg \/ Sub \/ Mul \/ Div \/ Less

SpecA == InitA /\ [][NextA]_vars

(***************************************************************************)
(* soflang/asm_ops.py: the text of an instruction (__str__) and parse_asm. *)
(* A line is a sequence of characters.                                     *)
(***************************************************************************)
Whitespace == {" ", "\t", "\n"}
DigitChars == <<"0", "1", "2", "3", "4", "5", "6", "7", "8", "9">>

\* str(n) of a Python int
RECURSIVE str_nat(_)
str_nat(n) == IF n < 10 THEN <<DigitChars[n + 1]>>
              ELSE Append(str_nat(n \div 10), DigitChars[(n % 10) + 1])
str_int(n) == IF n < 0 THEN <<"-">> \o str_nat(-n) ELSE str_nat(n)

\* int(s): an optional sign, then decimal digits; anything else raises
DigitOf(c) == CHOOSE d \in 0..9 : DigitChars[d + 1] = c
IsDigit(c) == \E d \in 0..9 : DigitChars[d + 1] = c
RECURSIVE int_nat(_, _)
int_nat(s_, k) == IF k = 0 THEN 0 ELSE 10 * int_nat(s_, k - 1) + DigitOf(s_[k])
int(s_) ==
    Bind(IF Len(s_) > 0 /\ s_[1] \in {"-", "+"} THEN Tail(s_) ELSE s_,
         LAMBDA d : IF Len(d) = 0 \/ \E k \in 1..Len(d) : ~IsDigit(d[k])
                    THEN [ok |-> FALSE, value |-> 0]
                    ELSE [ok |-> TRUE,
                          value |-> IF s_[1] = "-" THEN -int_nat(d, Len(d))
                                    ELSE int_nat(d, Len(d))])

\* the words of the instruction set, as __str__ prints them
Spelling(op) ==
    CASE op = "ADD" -> <<"A", "D", "D">>
      [] op = "SUB" -> <<"S", "U", "B">>
      [] op = "MUL" -> <<"M", "U", "L">>
      [] op = "DIV" -> <<"D", "I", "V">>
      [] op = "INV" -> <<"I", "N", "V">>
      [] op = "PUSH" -> <<"P", "U", "S", "H">>
      [] op = "POP" -> <<"P", "O", "P">>
      [] op = "STORE" -> <<"S", "T", "O", "R", "E">>
      [] op = "DSTORE" -> <<"D", "S", "T", "O", "R", "E">>
      [] op = "LOAD" -> <<"L", "O", "A", "D">>
      [] op = "DLOAD" -> <<"D", "L", "O", "A", "D">>
      [] op = "JUMP" -> <<"J", "U", "M", "P">>
      [] op = "JUMP0" -> <<"J", "U", "M", "P", "0">>
      [] op = "JUMPA" -> <<"J", "U", "M", "P", "A">>
      [] op = "DUMP" -> <<"D", "U", "M", "P">>
      [] op = "RETURN" -> <<"R", "E", "T", "U", "R", "N">>
      [] op = "ALLOC" -> <<"A", "L", "L", "O", "C">>
      [] op = "CRASH" -> <<"C", "R", "A", "S", "H">>
      [] op = "NOOP" -> <<"N", "O", "O", "P">>
      [] op = "LESS" -> <<"L", "E", "S", "S">>
      [] op = "EXIT" -> <<"E", "X", "I", "T">>

\* the classes with a field, and __str__ of an instruction
WithField == {"PUSH", "POP", "STORE", "LOAD", "JUMP", "JUMP0", "JUMPA", "DUMP", "ALLOC"}
Str(i) ==
    IF i.op \in WithField THEN Spelling(i.op) \o <<" ">> \o str_int(i.arg)
    ELSE Spelling(i.op)

\* str.upper() on the letters of the mnemonics
Lower == <<"a", "b", "c", "d", "e", "h", "i", "j", "l", "m", "n", "o", "p", "r",
           "s", "t", "u", "v", "x">>
Upper == <<"A", "B", "C", "D", "E", "H", "I", "J", "L", "M", "N", "O", "P", "R",
           "S", "T", "U", "V", "X">>
upper_char(c) ==
    IF \E k \in 1..Len(Lower) : Lower[k] = c
    THEN Upper[CHOOSE k \in 1..Len(Lower) : Lower[k] = c]
    ELSE c
upper(s_) == [k \in 1..Len(s_) |-> upper_char(s_[k])]

\* str.strip() and str.split()
RECURSIVE lstrip(_)
lstrip(s_) == IF Len(s_) > 0 /\ s_[1] \in Whitespace THEN lstrip(Tail(s_)) ELSE s_
RECURSIVE rstrip(_)
rstrip(s_) ==
    IF Len(s_) > 0 /\ s_[Len(s_)] \in Whitespace THEN rstrip(SubSeq(s_, 1, Len(s_) - 1))
    ELSE s_
strip(s_) == rstrip(lstrip(s_))

RECURSIVE SplitFrom(_, _, _, _)
SplitFrom(s_, k, word, acc) ==
    IF k > Len(s_) THEN (IF word = <<>> THEN acc ELSE Append(acc, word))
    ELSE IF s_[k] \in Whitespace
    THEN SplitFrom(s_, k + 1, <<>>, IF word = <<>> THEN acc ELSE Append(acc, word))
    ELSE SplitFrom(s_, k + 1, Append(word, s_[k]), acc)
split(s_) == SplitFrom(s_, 1, <<>>, <<>>)

\* the branches of parse_asm: the mnemonics it knows, with and without an
\* argument
ParsedPlain == {"ADD", "SUB", "MUL", "DIV", "INV", "DSTORE", "DLOAD", "RETURN",
                "CRASH", "NOOP", "EXIT"}
ParsedWithArg == {"PUSH", "POP", "STORE", "LOAD", "JUMP", "JUMP0", "JUMPA",
                  "ALLOC", "DUMP"}

\* one turn of the loop of parse_asm on a line that is not blank: the
\* instruction, or Raised for a ValueError
parse_line(words) ==
    Bind(upper(words[1]),
         LAMBDA opcode :
           IF \E op \in ParsedPlain : Spelling(op) = opcode
           THEN I0(CHOOSE op \in ParsedPlain : Spelling(op) = opcode)
           ELSE IF \E op \in ParsedWithArg : Spelling(op) = opcode
           THEN (IF Len(words) # 2 THEN Raised
                 ELSE Bind(int(words[2]),
                           LAMBDA v : IF ~v.ok THEN Raised
                                      ELSE I1(CHOOSE op \in ParsedWithArg :
                                                Spelling(op) = opcode, v.value)))
           ELSE Raised)

RECURSIVE ParseFrom(_, _, _)
ParseFrom(ls, k, result) ==
    IF k > Len(ls) THEN [state |-> "returned", result |-> result]
    ELSE Bind(strip(ls[k]),
              LAMBDA line :
                IF line = <<>> THEN ParseFrom(ls, k + 1, result)
                ELSE Bind(parse_line(split(line)),
                          LAMBDA i : IF i = Raised
                                     THEN [state |-> "raised", result |-> <<>>]
                                     ELSE ParseFrom(ls, k + 1, Append(result, i))))
parse_asm(ls) == ParseFrom(ls, 1, <<>>)

(***************************************************************************)
(* main.py binarify_asm / execute: an assembly file is read line by line   *)
(* and parsed.  The file is the print-out of an instruction list, with or  *)
(* without a blank line in front, or a text written by hand.               *)
(***************************************************************************)
Pool ==
    {I0(op) : op \in {"ADD", "SUB", "MUL", "DIV", "INV", "DSTORE", "DLOAD", "RETURN",
                      "CRASH", "NOOP", "LESS", "EXIT"}}
    \cup {I1("PUSH", v) : v \in {0, 5, -1, 2147483647, -2147483647}}
    \cup {I1(op, v) : op \in {"POP", "ALLOC"}, v \in {0, 1, 3}}
    \cup {I1(op, v) : op \in {"STORE", "LOAD"}, v \in {0, 2, -1, 300}}
    \cup {I1(op, v) : op \in {"JUMP", "JUMP0", "DUMP"}, v \in {1, -4, 12}}
    \cup {I1("JUMPA", v) : v \in {0, 11}}

Texts ==
    { << <<"a", "d", "d", "\n">> >>,
      << <<" ", "p", "u", "s", "h", " ", " ", "+", "5", "\t", "\n">>, <<"\n">>,
         <<"E", "x", "i", "t">> >>,
      << <<"P", "U", "S", "H", "\n">> >>,
      << <<"P", "U", "S", "H", " ", "1", " ", "2", "\n">> >>,
      << <<"P", "U", "S", "H", " ", "x", "\n">> >>,
      << <<"P", "O", "P", " ", "-", "\n">> >>,
      << <<"H", "A", "L", "T", "\n">> >>,
      << <<"A", "D", "D", " ", "1", "\n">> >>,
      << <<"R", "E", "T", "U", "R", "N", " ", "0", " ", "0", "\n">> >>,
      << <<"N", "O", "O", "P", "\n">>, <<"J", "U", "M", "P", "B", " ", "1", "\n">> >> }

InitP ==
    /\ \/ /\ written \in {<<i>> : i \in Pool} \cup {Listings[k] : k \in 1..Len(Listings)}
          /\ lines = <<>>
       \/ /\ written = <<>>
          /\ lines \in Texts
    /\ parsed = [state |-> "none"]
    /\ IdleButP

\* the file as f.readlines() returns it: str(i) and the end of the line
WriteFile ==
    /\ written # <<>>
    /\ lines = <<>>
    /\ \E blank \in BOOLEAN :
          lines' = (IF blank THEN << <<"\n">> >> ELSE <<>>)
                   \o [k \in 1..Len(written) |-> Append(Str(written[k]), "\n")]
    /\ UNCHANGED <<written, parsed, restP>>

Parse ==
    /\ lines # <<>>
    /\ parsed.state = "none"
    /\ parsed' = parse_asm(lines)
    /\ UNCHANGED <<written, lines, restP>>

NextP == WriteFile \/ Parse

SpecP == InitP /\ [][NextP]_vars

(***************************************************************************)
(* soflang/validator.py: MilliValidator, over the statements and           *)
(* expressions of soflang/analyzer.py.  The analysis state v holds the     *)
(* list self.errors and whether an exception has left validate; a type is  *)
(* the pair (class_type, array_size), None written "None" and NoSize.      *)
(***************************************************************************)
NoSize == -1
TypedVariable(name, class_type, array_size) ==
    [name |-> name, class_type |-> class_type, array_size |-> array_size]
VarDeclWithAssign(name, value, class_type, array_size) ==
    [kind |-> "VarDeclWithAssign", name |-> name, value |-> value,
     class_type |-> class_type, array_size |-> array_size]
Throwable == [kind |-> "Throwable"]
TypedFunction(name, return_class_type, return_array_size, parameters, body) ==
    [name |-> name, return_class_type |-> return_class_type,
     return_array_size |-> return_array_size, parameters |-> parameters, body |-> body]

UndefinedVariableError(var_name) == [error |-> "UndefinedVariableError", name |-> var_name]
UndefinedFunctionError(func_name) == [error |-> "UndefinedFunctionError", name |-> func_name]
TypeMismatchError(context) == [error |-> "TypeMismatchError", name |-> context]
ArgumentCountError(func_name) == [error |-> "ArgumentCountError", name |-> func_name]

NoType == [class_type |-> "None", array_size |-> NoSize]
NumOnly == [class_type |-> "Num", array_size |-> NoSize]
TypeOf(var) == [class_type |-> var.class_type, array_size |-> var.array_size]
ReturnTypeOf(f) == [class_type |-> f.return_class_type, array_size |-> f.return_array_size]

\* self.errors.append(error), and an exception that leaves validate
Appended(v, error) == IF v.raised THEN v ELSE [v EXCEPT !.errors = Append(@, error)]
Raise(v) == [v EXCEPT !.raised = TRUE]

\* self.functions = {func.name: func for func in functions}
FunctionNamed(fs, name) ==
    fs[CHOOSE k \in DOMAIN fs : fs[k].name = name /\ \A j \in DOMAIN fs : fs[j].name = name => j <= k]

analyze_index(index, variables, v) ==
    IF index.kind = "int"
    THEN IF index.int < 0 THEN Appended(v, TypeMismatchError("index")) ELSE v
    ELSE IF index.name \notin DOMAIN variables
         THEN Appended(v, UndefinedVariableError(index.name))
         ELSE IF TypeOf(variables[index.name]) # NumOnly
              THEN Appended(v, TypeMismatchError("index"))
              ELSE v

analyze_array_index_expr(array_index, variables, v) ==
    IF array_index.var_name \notin DOMAIN variables
    THEN [t |-> NoType, v |-> Appended(v, UndefinedVariableError(array_index.var_name))]
    ELSE IF variables[array_index.var_name].array_size = NoSize
         THEN [t |-> NoType, v |-> Appended(v, TypeMismatchError("array"))]
         ELSE [t |-> [class_type |-> variables[array_index.var_name].class_type,
                      array_size |-> NoSize],
               v |-> analyze_index(array_index.index, variables, v)]

\* the arguments of a call are Atom objects (analyzer.py, _parse_function_call),
\* which cannot be hashed: the membership test on the first of them raises
analyze_function_call(func_call, variables, fs, v) ==
    IF \A k \in DOMAIN fs : fs[k].name # func_call.name
    THEN [t |-> NoType, v |-> Appended(v, UndefinedFunctionError(func_call.name))]
    ELSE Bind(IF Len(func_call.parameters) # Len(FunctionNamed(fs, func_call.name).parameters)
              THEN Appended(v, ArgumentCountError(func_call.name))
              ELSE v,
              LAMBDA v1 : [t |-> ReturnTypeOf(FunctionNamed(fs, func_call.name)),
                           v |-> IF Len(func_call.parameters) > 0 THEN Raise(v1) ELSE v1])

analyze_atom(atom, variables, fs, v) ==
    CASE atom.value.kind = "IntegerLiteral" -> [t |-> NumOnly, v |-> v]
      [] atom.value.kind = "IdentifierExpr" ->
           IF atom.value.name \in DOMAIN variables
           THEN [t |-> TypeOf(variables[atom.value.name]), v |-> v]
           ELSE IF \E k \in DOMAIN fs : fs[k].name = atom.value.name
                THEN [t |-> ReturnTypeOf(FunctionNamed(fs, atom.value.name)), v |-> v]
                ELSE [t |-> NoType, v |-> Appended(v, UndefinedVariableError(atom.value.name))]
      [] atom.value.kind = "FunctionCall" -> analyze_function_call(atom.value, variables, fs, v)
      [] atom.value.kind = "ArrayIndex" -> analyze_array_index_expr(atom.value, variables, v)
      [] OTHER -> [t |-> NoType, v |-> v]

RECURSIVE analyze_expression(_, _, _, _)
analyze_expression(expr, variables, fs, v) ==
    CASE expr.kind = "GeneralExpr" ->
           [t |-> NumOnly,
            v |-> analyze_expression(expr.right, variables, fs,
                                     analyze_expression(expr.left, variables, fs, v).v).v]
      [] expr.kind = "UnaryExpr" ->
           Bind(analyze_expression(expr.operand, variables, fs, v),
                LAMBDA o : [t |-> NumOnly,
                            v |-> IF o.t.class_type # "None" /\ o.t # NumOnly
                                  THEN Appended(o.v, TypeMismatchError("unary"))
                                  ELSE o.v])
      [] OTHER -> analyze_atom(expr, variables, fs, v)

\* the two comparisons that follow an analysed expression
TypeChecked(expected, t, v) ==
    IF t.class_type = "None" THEN v
    ELSE Bind(IF expected.class_type # t.class_type
              THEN Appended(v, TypeMismatchError("class type")) ELSE v,
              LAMBDA v1 : IF expected.array_size # t.array_size
                          THEN Appended(v1, TypeMismatchError("array size")) ELSE v1)

check_result_assignment_type(expr, variables, func, fs, v) ==
    Bind(analyze_expression(expr, variables, fs, v),
         LAMBDA e : TypeChecked(ReturnTypeOf(func), e.t, e.v))

analyze_simple_assignment(var_name, value, variables, func, fs, v) ==
    IF var_name # "result" /\ var_name \notin DOMAIN variables
    THEN Appended(v, UndefinedVariableError(var_name))
    ELSE IF var_name \notin DOMAIN variables THEN v
    ELSE Bind(analyze_expression(value, variables, fs, v),
              LAMBDA e : Bind(TypeChecked(TypeOf(variables[var_name]), e.t, e.v),
                  LAMBDA v1 : IF var_name = "result"
                              THEN check_result_assignment_type(value, variables, func, fs, v1)
                              ELSE v1))

analyze_array_assignment(target, value, variables, fs, v) ==
    IF target.var_name \notin DOMAIN variables
    THEN Appended(v, UndefinedVariableError(target.var_name))
    ELSE IF variables[target.var_name].array_size = NoSize
         THEN Appended(v, TypeMismatchError("array"))
         ELSE Bind(analyze_expression(value, variables, fs,
                                      analyze_index(target.index, variables, v)),
                   LAMBDA e : IF e.t.class_type # "None" /\ e.t.array_size # NoSize
                              THEN Appended(e.v, TypeMismatchError("element"))
                              ELSE e.v)

analyze_assignment(stmt, variables, func, fs, v) ==
    IF stmt.target.kind = "str"
    THEN analyze_simple_assignment(stmt.target.name, stmt.value, variables, func, fs, v)
    ELSE analyze_array_assignment(stmt.target, stmt.value, variables, fs, v)

\* the condition of an if or a while, which must be Num
ConditionChecked(condition, variables, fs, v) ==
    Bind(analyze_expression(condition, variables, fs, v),
         LAMBDA c : IF c.t.class_type # "None" /\ c.t # NumOnly
                    THEN Appended(c.v, TypeMismatchError("condition"))
                    ELSE c.v)

\* _process_statements; _analyze_if_expr and _analyze_while_expr hand their
\* body a copy of variables, so nothing declared in it reaches the caller
RECURSIVE process_statements(_, _, _, _, _)
process_statements(statements, variables, func, fs, v) ==
    IF statements = <<>> THEN v
    ELSE Bind(Head(statements),
              LAMBDA stmt :
                  CASE stmt.kind = "VariableDeclaration" ->
                         IF stmt.variable.name = "result"
                         THEN process_statements(Tail(statements), variables, func, fs,
                                                 Appended(v, TypeMismatchError("declare result")))
                         ELSE process_statements(Tail(statements),
                                                 Put(variables, stmt.variable.name, stmt.variable),
                                                 func, fs, v)
                    [] stmt.kind = "Assignment" ->
                         process_statements(Tail(statements), variables, func, fs,
                                            analyze_assignment(stmt, variables, func, fs, v))
                    [] stmt.kind \in {"IfExpression", "WhileExpression"} ->
                         process_statements(Tail(statements), variables, func, fs,
                             process_statements(stmt.body, variables, func, fs,
                                 ConditionChecked(stmt.condition, variables, fs, v)))
                    [] OTHER ->
                         process_statements(Tail(statements), variables, func, fs, v))

RECURSIVE WithParameters(_, _)
WithParameters(variables, parameters) ==
    IF parameters = <<>> THEN variables
    ELSE WithParameters(Put(variables, Head(parameters).name, Head(parameters)),
                        Tail(parameters))

analyze_function_body(func, fs, v) ==
    process_statements(func.body,
                       Put(WithParameters(<<>>, func.parameters), "result",
                           TypedVariable("result", func.return_class_type,
                                         func.return_array_size)),
                       func, fs, v)

(***************************************************************************)
(* The functions handed to validate: test(Num p), whose body is up to      *)
(* MaxStatements of the statements below, beside h(Num n) and f().         *)
(***************************************************************************)
NumVar(name) == TypedVariable(name, "Num", NoSize)
TestStatements ==
    { VariableDeclaration(NumVar("x")),
      VarDeclWithAssign("x", IntegerLiteral(1), "Num", NoSize),
      VariableDeclaration(TypedVariable("a", "Num", 3)),
      VariableDeclaration(NumVar("result")),
      Throwable,
      Assignment("result", IdentifierExpr("x")),
      Assignment("x", IdentifierExpr("p")),
      Assignment("y", IdentifierExpr("z")),
      Assignment("result", GeneralExpr(IdentifierExpr("y"), "+", UnaryExpr(IdentifierExpr("p")))),
      Assignment("result", FunctionCall("f", <<>>)),
      Assignment("result", FunctionCall("g", <<IdentifierExpr("q")>>)),
      Assignment("result", FunctionCall("h", <<IdentifierExpr("p")>>)),
      AssignmentAt("a", StrIndex("x"), ArrayAtom("a", IntIndex(0))),
      IfExpression(IdentifierExpr("p"),
                   << VariableDeclaration(NumVar("y")),
                      Assignment("y", IdentifierExpr("x")) >>),
      WhileExpression(IdentifierExpr("x"),
                      << VariableDeclaration(NumVar("x")),
                         Assignment("x", IntegerLiteral(2)) >>) }

MaxStatements == 2
TestBodies == UNION {[1..n -> TestStatements] : n \in 1..MaxStatements}
Helpers ==
    << TypedFunction("h", "Num", NoSize, <<NumVar("n")>>,
                     <<Assignment("result", IdentifierExpr("m"))>>),
       TypedFunction("f", "Num", NoSize, <<>>, <<Assignment("result", IntegerLiteral(1))>>) >>
Sources3 ==
    { <<TypedFunction("test", "Num", NoSize, <<NumVar("p")>>, body)>> \o Helpers :
          body \in TestBodies }

InitV ==
    /\ to_validate \in Sources3
    /\ errors = <<>>
    /\ position = 0
    /\ verdict = "running"
    /\ IdleButV

\* one pass of the loop of validate: the body of the next function
AnalyzeFunctionBody ==
    /\ verdict = "running"
    /\ position < Len(to_validate)
    /\ LET v == analyze_function_body(to_validate[position + 1], to_validate,
                                      [errors |-> errors, raised |-> FALSE])
       IN /\ errors' = v.errors
          /\ verdict' = IF v.raised THEN "raised" ELSE "running"
    /\ position' = position + 1
    /\ UNCHANGED <<to_validate, restV>>

\* return self.errors
ReturnErrors ==
    /\ verdict = "running"
    /\ position = Len(to_validate)
    /\ verdict' = "returned"
    /\ UNCHANGED <<to_validate, errors, position, restV>>

NextV == AnalyzeFunctionBody \/ ReturnErrors

SpecV == InitV /\ [][NextV]_vars

(***************************************************************************)
(* The immediates of the instruction classes, over the ranges of their     *)
(* fields: the count of POP over all of u8, the others at the ends and in  *)
(* the middle of u16, i16 and int32.                                       *)
(***************************************************************************)
U8 == 0..255
U16Corners == {0, 1, 127, 128, 255, 256, 32767, 32768, 65535}
I16Corners == {-32768, -32767, -256, -128, -1, 0, 1, 127, 128, 32767}
I32Corners == {MinInt32, -2147483647, -65536, -1, 0, 1, 65535, 2147483647}
Candidates ==
    {I1("POP", a) : a \in U8}
      \cup {I1(op, a) : op \in {"ALLOC", "JUMPA"}, a \in U16Corners}
      \cup {I1(op, a) : op \in {"STORE", "LOAD", "JUMP", "JUMP0", "DUMP"}, a \in I16Corners}
      \cup {I1("PUSH", a) : a \in I32Corners}

InitB ==
    /\ candidate \in Candidates
    /\ encoding = [state |-> "none"]
    /\ decoding = [state |-> "none"]
    /\ IdleButB

\* Instruction.__post_init__ and binarify(): the bytes, or AssertionError
Binarify ==
    /\ candidate # <<>>
    /\ encoding.state = "none"
    /\ encoding' = IF Constructible(candidate)
                   THEN [state |-> "encoded", bytes |-> binarify(candidate)]
                   ELSE [state |-> "raised"]
    /\ UNCHANGED <<candidate, decoding, restB>>

\* decode_binary_asm at byte 0 of the bytes of the instruction
DecodeBack ==
    /\ encoding.state = "encoded"
    /\ decoding.state = "none"
    /\ decoding' = [state |-> "decoded", instruction |-> decode_binary_asm(encoding.bytes, 0)]
    /\ UNCHANGED <<candidate, encoding, restB>>

NextB == Binarify \/ DecodeBack

SpecB == InitB /\ [][NextB]_vars

(***************************************************************************)
(* One statement, translated in its body and run: soflang/asm.py           *)
(* (translate, _parse_body) and lvm.py (run_abstract).                     *)
(***************************************************************************)
\* outer: the lines before the statement; head and tail: the instructions
\* at the two ends of the statement's code that are not under observation
\* (those of the value assigned, or of the assignment of the value read)
Fragment(outer, line, head, tail) ==
    [outer |-> outer, line |-> line, head |-> head, tail |-> tail]

MaxElements == 3
MaxPad == 1

RECURSIVE Fill(_, _, _, _)
Fill(name, first, k, n) ==
    IF k >= n THEN <<>>
    ELSE <<AssignmentAt(name, IntIndex(k), IntegerLiteral(first + k))>>
         \o Fill(name, first, k + 1, n)

Padding(pad) == IF pad = 0 THEN <<>> ELSE <<VariableDeclaration(Arr("p", pad))>>

\* an array a of n elements 10, 11, ... and an index variable j holding k,
\* after pad words of another local
ArrayOuter(pad, n, k) ==
    Padding(pad)
    \o <<VariableDeclaration(Arr("a", n)), VariableDeclaration(Num("j")),
         Assignment("j", IntegerLiteral(k))>>
    \o Fill("a", 10, 0, n)

IndexOf(s) == IF s.by = "int" THEN IntIndex(s.k) ELSE StrIndex("j")

\* a[k] or a[j] read alone or as the right operand of a sum, and written
IndexFragment(s) ==
    Fragment(ArrayOuter(s.pad, s.n, s.k),
             IF s.write THEN AssignmentAt("a", IndexOf(s), IntegerLiteral(77))
             ELSE IF s.deep
             THEN Assignment("result",
                      GeneralExpr(IntegerLiteral(1), "+", ArrayAtom("a", IndexOf(s))))
             ELSE Assignment("result", ArrayAtom("a", IndexOf(s))),
             IF s.write \/ s.deep THEN 1 ELSE 0,
             IF s.write THEN 0 ELSE IF s.deep THEN 2 ELSE 1)

IndexShapes ==
    {s \in [pad : 0..MaxPad, n : 1..MaxElements, k : 0..(MaxElements - 1),
            by : {"int", "str"}, write : BOOLEAN, deep : BOOLEAN] :
        s.k < s.n /\ (s.write => ~s.deep)}

IndexFragments == {IndexFragment(s) : s \in IndexShapes}

\* x and y of n words each, y holding 20, 21, ... and x 30, 31, ...; a
\* one-word variable is a number or an array of one element
Declared(name, n, scalar) ==
    VariableDeclaration(IF scalar THEN Num(name) ELSE Arr(name, n))
Filled(name, first, n, scalar) ==
    IF scalar THEN <<Assignment(name, IntegerLiteral(first))>> ELSE Fill(name, first, 0, n)

CopyFragment(s) ==
    Fragment(Padding(s.pad)
             \o (IF s.x_first
                 THEN <<Declared("x", s.n, s.scalar), Declared("y", s.n, s.scalar)>>
                 ELSE <<Declared("y", s.n, s.scalar), Declared("x", s.n, s.scalar)>>)
             \o Filled("y", 20, s.n, s.scalar) \o Filled("x", 30, s.n, s.scalar),
             Assignment("x", IdentifierExpr("y")), 0, 0)

CopyShapes ==
    {s \in [pad : 0..MaxPad, n : 1..MaxElements, scalar : BOOLEAN, x_first : BOOLEAN] :
        s.scalar => s.n = 1}

CopyFragments == {CopyFragment(s) : s \in CopyShapes}

\* a conditional or a loop on c, whose body may declare a local, count c
\* down, and hold a conditional or a loop of its own, with or without a
\* local; the condition is c (one instruction) or c - 0 (three)
Condition(wide) ==
    IF wide THEN GeneralExpr(IdentifierExpr("c"), "-", IntegerLiteral(0))
    ELSE IdentifierExpr("c")
Construct(kind, wide, body) ==
    IF kind = "if" THEN IfExpression(Condition(wide), body)
    ELSE WhileExpression(Condition(wide), body)
CountDown == Assignment("c", GeneralExpr(IdentifierExpr("c"), "-", IntegerLiteral(1)))
InnerBody(s) == IF s.inner_local THEN <<VariableDeclaration(Num("u"))>> ELSE <<>>
OuterBody(s) ==
    (IF s.local THEN <<VariableDeclaration(Arr("t", 2))>> ELSE <<>>)
    \o (IF s.inner = "none" THEN <<>> ELSE <<Construct(s.inner, s.wide, InnerBody(s))>>)
    \o (IF s.work THEN <<CountDown>> ELSE <<>>)

BlockFragment(s) ==
    Fragment(<<VariableDeclaration(Num("c")), Assignment("c", IntegerLiteral(s.c))>>,
             Construct(s.outer, s.wide, OuterBody(s)), 0, 0)

MaxCount == 1
BlockShapes ==
    {s \in [outer : {"if", "while"}, inner : {"none", "if", "while"}, local : BOOLEAN,
            inner_local : BOOLEAN, wide : BOOLEAN, work : BOOLEAN, c : 0..MaxCount] :
        s.inner = "none" => ~s.inner_local}

BlockFragments == {BlockFragment(s) : s \in BlockShapes}

\* a conditional or a loop whose body declares x, a number or an array of
\* two, where a number x is in scope
ShadowFragment(s) ==
    Fragment(Padding(s.pad)
             \o <<VariableDeclaration(Num("c")), Assignment("c", IntegerLiteral(s.c)),
                  VariableDeclaration(Num("x")), Assignment("x", IntegerLiteral(5))>>,
             Construct(s.outer, FALSE,
                       <<VariableDeclaration(IF s.array THEN Arr("x", 2) ELSE Num("x")),
                         CountDown>>),
             0, 0)

ShadowShapes ==
    [outer : {"if", "while"}, array : BOOLEAN, pad : 0..MaxPad, c : 0..MaxCount]

ShadowFragments == {ShadowFragment(s) : s \in ShadowShapes}

Fragments == IndexFragments \cup CopyFragments \cup BlockFragments \cup ShadowFragments

\* the functions translate receives for a body
MainOnly(body) == << Main(body) >>

\* translate on the fragment; the instructions of the statement are those
\* translate appends between the code of the lines before it and the
\* _clean_stack and EXIT that close main
\* outer_positions and outer_sizes are the tables of the translator when
\* only the lines before the statement have been translated
LowerMain(f) ==
    [result |-> translate(MainOnly(f.outer \o <<f.line>>)).result,
     first |-> Len(translate(MainOnly(f.outer)).result) - 2 + f.head,
     last |-> Len(translate(MainOnly(f.outer \o <<f.line>>)).result) - 2 - f.tail,
     blocks |-> translate(MainOnly(f.outer \o <<f.line>>)).blocks,
     outer_positions |->
         parse_function(Main(f.outer), AllFunctions(MainOnly(f.outer))).var_stack_positions,
     outer_sizes |->
         parse_function(Main(f.outer), AllFunctions(MainOnly(f.outer))).var_stack_sizes,
     var_stack_positions |->
         parse_function(Main(f.outer \o <<f.line>>),
                        AllFunctions(MainOnly(f.outer \o <<f.line>>))).var_stack_positions,
     var_stack_sizes |->
         parse_function(Main(f.outer \o <<f.line>>),
                        AllFunctions(MainOnly(f.outer \o <<f.line>>))).var_stack_sizes]

InitS ==
    /\ fragment \in Fragments
    /\ lowered = <<>>
    /\ machine = <<>>
    /\ at_entry = <<>>
    /\ at_exit = <<>>
    /\ progress = "source"
    /\ IdleButS

\* main.py: translate, then the execution context run sets up
LowerFragment ==
    /\ progress = "source"
    /\ lowered' = LowerMain(fragment)
    /\ machine' = NewContext
    /\ progress' = "running"
    /\ UNCHANGED <<fragment, at_entry, at_exit, restS>>

\* the context is noted before the first observed instruction runs and
\* after the last one has run
Noted(old, e) == IF old = <<>> THEN e ELSE old

\* lvm.py run_abstract: one iteration of the while loop
RunInstruction ==
    /\ progress = "running"
    /\ UNCHANGED <<fragment, lowered, restS>>
    /\ IF ~InRange(lowered.result, machine.ip)
       THEN /\ progress' = "crashed"
            /\ UNCHANGED <<machine, at_entry, at_exit>>
       ELSE IF At(lowered.result, machine.ip).op = "EXIT"
       THEN /\ progress' = "halted"
            /\ UNCHANGED <<machine, at_entry, at_exit>>
       ELSE IF ~ApplyAsm(At(lowered.result, machine.ip), machine).ok
       THEN /\ progress' = "crashed"
            /\ UNCHANGED <<machine, at_entry, at_exit>>
       ELSE /\ progress' = "running"
            /\ machine' = ApplyAsm(At(lowered.result, machine.ip), machine)
            /\ at_entry' = IF machine.ip = lowered.first THEN Noted(at_entry, machine)
                           ELSE at_entry
            /\ at_exit' = IF machine'.ip = lowered.last /\ machine.ip >= lowered.first
                          THEN Noted(at_exit, machine') ELSE at_exit

NextS == LowerFragment \/ RunInstruction

SpecS == InitS /\ [][NextS]_vars

(***************************************************************************)
(* soflang/debugger.py: AbstractFoxbugger.forward with the accessors of    *)
(* FoxbuggerSimple.  The translation result of this revision of asm.py     *)
(* carries no debug information; variable_allocations is built as the      *)
(* specification describes it: the index of the ALLOC of every variable    *)
(* declaration, with the name and the footprint of the variable.  The      *)
(* stack of FoxbuggerSimple has 1200 cells where that of run_abstract has  *)
(* 2400; the programs explored come near neither end.                      *)
(***************************************************************************)
spacing == 1
VarDebugInfo(name, start_sp, size) == [name |-> name, start_sp |-> start_sp, size |-> size]

\* the variables a body declares, in the order their ALLOCs are emitted
RECURSIVE DeclaredIn(_)
DeclaredIn(body) ==
    IF body = <<>> THEN <<>>
    ELSE (CASE Head(body).kind = "VariableDeclaration" -> <<Head(body).variable>>
            [] Head(body).kind \in {"IfExpression", "WhileExpression"} ->
                 DeclaredIn(Head(body).body)
            [] OTHER -> <<>>)
         \o DeclaredIn(Tail(body))

\* the 0-based indices of the ALLOCs of fn that belong to declarations (the
\* ALLOC of a call site is followed by DUMP)
DeclarationAllocs(t, fn) ==
    {k \in 0..(Len(t.result) - 1) :
        /\ t.owner[k + 1] = fn
        /\ t.result[k + 1].op = "ALLOC"
        /\ ~(k + 2 <= Len(t.result) /\ t.result[k + 2].op = "DUMP")}

variable_allocations(functions, t) ==
    [k \in UNION {DeclarationAllocs(t, functions[f].name) : f \in DOMAIN functions} |->
        Bind(DeclaredIn(AllFunctions(functions)[t.owner[k + 1]].body)
                 [Cardinality({j \in DeclarationAllocs(t, t.owner[k + 1]) : j <= k})],
             LAMBDA var : [name |-> var.name,
                           size |-> calculate_space(var.type, var.array_size)])]

TranslationResult(functions) ==
    [asm_instructions |-> translate(functions).result,
     variable_allocations |-> variable_allocations(functions, translate(functions))]

\* an if in the place of the while: one record popped at most
PopDead_Once(live, cur_sp) ==
    IF Len(live) > 0 /\ cur_sp < live[Len(live)].start_sp
    THEN SubSeq(live, 1, Len(live) - 1)
    ELSE live

\* while len(self.vars) > 0 and self.get_cur_sp() < self.vars[-1].start_sp
RECURSIVE PopDead(_, _)
PopDead(live, cur_sp) ==
    IF Len(live) > 0 /\ cur_sp < live[Len(live)].start_sp
    THEN PopDead(SubSeq(live, 1, Len(live) - 1), cur_sp)
    ELSE live

\* make_step of FoxbuggerSimple: apply() of the instruction at ip; ExitI
\* inherits the apply() of Instruction, which does nothing
make_step(instructions, e) ==
    IF ~InRange(instructions, e.ip) THEN fail(e)
    ELSE IF At(instructions, e.ip).op = "EXIT" THEN e
    ELSE ApplyAsm(At(instructions, e.ip), e)

\* the append of forward()
Appended_Var(info, live, cur_ip, cur_sp) ==
    IF cur_ip \in DOMAIN info.variable_allocations
    THEN Append(live, VarDebugInfo(info.variable_allocations[cur_ip].name,
                                   cur_sp - (info.variable_allocations[cur_ip].size - 1)
                                              * spacing,
                                   info.variable_allocations[cur_ip].size))
    ELSE live

\* forward(): the step, the append, the pops; raised is set when make_step
\* or the lookup of the line of the new ip raises
forward(info, f) ==
    Bind(make_step(info.asm_instructions, f.ec),
         LAMBDA e :
            IF ~e.ok THEN [f EXCEPT !.steps = f.steps + 1, !.raised = TRUE]
            ELSE [ec |-> e,
                  vars |-> PopDead(Appended_Var(info, f.vars, f.ec.ip, e.sp), e.sp),
                  steps |-> f.steps + 1,
                  raised |-> ~InRange(info.asm_instructions, e.ip)])

\* the programs of the translator, and one with a loop inside a
\* conditional, locals at three depths and an array of no elements
DebuggedPrograms ==
    {Programs[k] : k \in 1..Len(Programs)}
    \cup { << Main(<< VariableDeclaration(Num("n")),
                      Assignment("n", IntegerLiteral(2)),
                      VariableDeclaration(Arr("z", 0)),
                      IfExpression(IdentifierExpr("n"),
                        << VariableDeclaration(Arr("b", 2)),
                           WhileExpression(IdentifierExpr("n"),
                             << VariableDeclaration(Num("t")),
                                Assignment("n", GeneralExpr(IdentifierExpr("n"), "-",
                                                            IntegerLiteral(1))) >>),
                           VariableDeclaration(Num("w")) >>),
                      Assignment("result", IdentifierExpr("n")) >>) >> }

MaxForward == 40

InitD ==
    /\ debug_info \in {TranslationResult(p) : p \in DebuggedPrograms}
    /\ fox = [ec |-> NewContext, vars |-> <<>>, steps |-> 0, raised |-> FALSE]
    /\ IdleButD

\* run_debugger: one forward() of the loop
Forward ==
    /\ ~fox.raised
    /\ fox.steps < MaxForward
    /\ fox' = forward(debug_info, fox)
    /\ UNCHANGED <<debug_info, restD>>

NextD == Forward

SpecD == InitD /\ [][NextD]_vars

(***************************************************************************)
(* soflang/centi_parser.py: the nodes of the parsed text.  The type 'auto' *)
(* is written as a node of type auto, and the size of an array as an        *)
(* integer node where the parser keeps a bare int.                          *)
(***************************************************************************)
identifier(v) == [type |-> "identifier", value |-> v]
integer(v) == [type |-> "integer", value |-> v]
placeholder(v) == [type |-> "placeholder", value |-> v]
simple_type(base, template) ==
    [kind |-> [dim |-> "simple"], base |-> base, type |-> "type", template_params |-> template]
array_type(base, template, size) ==
    [kind |-> [dim |-> "array", size |-> size], base |-> base, type |-> "type",
     template_params |-> template]
AutoType == [type |-> "auto"]
var_decl(kind, var_name) == [kind |-> kind, type |-> "var_decl", identifier |-> var_name]
var_decl_with_assign(kind, var_name, value) ==
    [kind |-> kind, type |-> "var_decl_with_assign", identifier |-> var_name, value |-> value]
function_call(func_name, template, parameters) ==
    [type |-> "func_call", identifier |-> func_name, parameters |-> parameters,
     template_params |-> template]
constructor_call(clazz_name, template, parameters) ==
    [type |-> "constructor_call", identifier |-> clazz_name, parameters |-> parameters,
     template_params |-> template]
binary_expr(left, op, right) == [type |-> "gen_expr", left |-> left, op |-> op, right |-> right]
assignment(dest, value) == [type |-> "assignment", dest |-> dest, value |-> value]
if_expr(condition, body) == [type |-> "if_expr", condition |-> condition, body |-> body]
while_expr(condition, body) == [type |-> "while_expr", condition |-> condition, body |-> body]
func_decl(kind, func_name, template, parameters, body) ==
    [type |-> "func_decl", kind |-> kind, identifier |-> func_name, body |-> body,
     parameters |-> parameters, template_params |-> template]
field_decl(field_name, kind) == [type |-> "field_decl", identifier |-> field_name, kind |-> kind]
clazz_decl(clazz_name, template, types) ==
    [type |-> "clazz_decl", identifier |-> clazz_name, types |-> types,
     template_params |-> template]

(***************************************************************************)
(* soflang/preprocess.py: resolve_templates.  A nested function takes the  *)
(* dicts it closes over in e (decls: template_decls, memo:                 *)
(* resolved_template_functions, expanded: the expansions so far) and       *)
(* returns the node it changed in place together with e.                   *)
(***************************************************************************)
dict_has(d, key) == \E k \in DOMAIN d : d[k].key = key
dict_get(d, key) == d[CHOOSE k \in DOMAIN d : d[k].key = key].value
dict_set(d, key, value) ==
    IF dict_has(d, key)
    THEN [k \in DOMAIN d |-> IF d[k].key = key THEN [key |-> key, value |-> value] ELSE d[k]]
    ELSE Append(d, [key |-> key, value |-> value])
dict_values(d) == [k \in DOMAIN d |-> d[k].value]

partial_resolved_template == [type |-> "partial_resolved_template"]

\* the placeholders among the parameters of a reference, replaced
ResolvedParams(params, template_params) ==
    [i \in DOMAIN params |->
        IF params[i].type = "placeholder" THEN template_params[params[i].value] ELSE params[i]]

\* dict(zip(...)): a later pair of the same placeholder overrides an earlier one
Zipped(placeholders, resolved_params) ==
    LET n == IF Len(placeholders) < Len(resolved_params)
             THEN Len(placeholders) ELSE Len(resolved_params)
    IN [v \in {placeholders[i].value : i \in 1..n} |->
           resolved_params[CHOOSE i \in 1..n :
               /\ placeholders[i].value = v
               /\ \A j \in 1..n : placeholders[j].value = v => j <= i]]

\* "_".join([name] + resolved_params_str)
RECURSIVE full_name(_, _)
full_name(name, resolved_params) ==
    IF resolved_params = <<>> THEN name
    ELSE full_name(name \o "_" \o (IF Head(resolved_params).type = "integer"
                                   THEN ToString(Head(resolved_params).value)
                                   ELSE Head(resolved_params).base.value),
                   Tail(resolved_params))

RECURSIVE resolve_func_call(_, _, _)
RECURSIVE resolve_line(_, _, _)
RECURSIVE resolve_inner(_, _, _)
RECURSIVE resolve_type(_, _, _)
RECURSIVE resolve_fields(_, _, _)
RECURSIVE resolve_global_expr(_, _, _)
RECURSIVE resolve_template_expr(_, _, _)

resolve_func_call(call, template_params, e) ==
    IF call.template_params = <<>> THEN [node |-> call, e |-> e]
    ELSE Bind(resolve_template_expr(call.identifier,
                                    ResolvedParams(call.template_params, template_params), e),
              LAMBDA r : [node |-> [call EXCEPT !.identifier = r.name,
                                                !.template_params = <<>>],
                          e |-> r.e])

\* the body of the for loop of resolve_inner
resolve_line(line, template_params, e) ==
    CASE line.type = "placeholder" ->
           [node |-> template_params[line.value], e |-> e]
      [] line.type = "var_decl" ->
           Bind(resolve_type(line.kind, template_params, e),
                LAMBDA k : [node |-> [line EXCEPT !.kind = k.node], e |-> k.e])
      [] line.type = "var_decl_with_assign" ->
           Bind(resolve_type(line.kind, template_params, e),
                LAMBDA k : Bind(resolve_line(line.value, template_params, k.e),
                    LAMBDA v : [node |-> [line EXCEPT !.kind = k.node, !.value = v.node],
                                e |-> v.e]))
      [] line.type \in {"if_expr", "while_expr"} ->
           Bind(resolve_inner(line.body, template_params, e),
                LAMBDA b : [node |-> [line EXCEPT !.body = b.node], e |-> b.e])
      [] line.type \in {"constructor_call", "func_call"} ->
           resolve_func_call(line, template_params, e)
      [] line.type = "gen_expr" ->
           Bind(resolve_line(line.left, template_params, e),
                LAMBDA l : Bind(resolve_line(line.right, template_params, l.e),
                    LAMBDA r : [node |-> [line EXCEPT !.left = l.node, !.right = r.node],
                                e |-> r.e]))
      [] line.type = "assignment" ->
           Bind(resolve_line(line.value, template_params, e),
                LAMBDA v : [node |-> [line EXCEPT !.value = v.node], e |-> v.e])
      [] OTHER -> [node |-> line, e |-> e]

resolve_inner(lines_, template_params, e) ==
    IF lines_ = <<>> THEN [node |-> <<>>, e |-> e]
    ELSE Bind(resolve_line(Head(lines_), template_params, e),
              LAMBDA h : Bind(resolve_inner(Tail(lines_), template_params, h.e),
                  LAMBDA t : [node |-> <<h.node>> \o t.node, e |-> t.e]))

\* the first two ifs of resolve_type: the size and the base of the type
SizeResolved(kind, template_params) ==
    IF kind.kind.dim = "array" /\ kind.kind.size.type = "placeholder"
    THEN [kind EXCEPT !.kind.size = integer(template_params[kind.kind.size.value].value)]
    ELSE kind
BaseResolved(kind, template_params) ==
    IF kind.base.type = "placeholder"
    THEN [kind EXCEPT !.base = template_params[kind.base.value].base]
    ELSE kind

resolve_type(kind, template_params, e) ==
    IF kind.type = "auto" THEN [node |-> kind, e |-> e]
    ELSE Bind(BaseResolved(SizeResolved(kind, template_params), template_params),
              LAMBDA k :
                  IF k.template_params = <<>> THEN [node |-> k, e |-> e]
                  ELSE Bind(resolve_template_expr(k.base.value,
                                ResolvedParams(k.template_params, template_params), e),
                            LAMBDA r : [node |-> [k EXCEPT !.base.value = r.name,
                                                           !.template_params = <<>>],
                                        e |-> r.e]))

\* the loop of resolve_global_expr over the fields of a class
resolve_fields(types, template_params, e) ==
    IF types = <<>> THEN [node |-> <<>>, e |-> e]
    ELSE Bind(resolve_type(Head(types).kind, template_params, e),
              LAMBDA h : Bind(resolve_fields(Tail(types), template_params, h.e),
                  LAMBDA t : [node |-> <<[Head(types) EXCEPT !.kind = h.node]>> \o t.node,
                              e |-> t.e]))

resolve_global_expr(decl, template_params, e) ==
    CASE decl.type = "clazz_decl" ->
           Bind(resolve_fields(decl.types, template_params, e),
                LAMBDA t : [node |-> [decl EXCEPT !.types = t.node], e |-> t.e])
      [] decl.type = "func_decl" ->
           Bind(resolve_type(decl.kind, template_params, e),
                LAMBDA k : Bind(resolve_inner(decl.parameters, template_params, k.e),
                    LAMBDA ps : Bind(resolve_inner(decl.body, template_params, ps.e),
                        LAMBDA b : [node |-> [decl EXCEPT !.kind = k.node,
                                                          !.parameters = ps.node,
                                                          !.body = b.node],
                                    e |-> b.e])))
      [] OTHER -> [node |-> decl, e |-> e]

\* the test that ends resolve_template_expr early
AlreadyResolved(name, memo) == dict_has(memo, name)

\* the expansion returned without the assignment that replaces the sentinel
resolve_template_expr_SentinelLeft(name, resolved_params, e) ==
    Bind(full_name(name, resolved_params),
         LAMBDA fn :
             IF AlreadyResolved(fn, e.memo) THEN [name |-> fn, e |-> e]
             ELSE Bind(resolve_global_expr(
                           dict_get(e.decls, name),
                           Zipped(dict_get(e.decls, name).template_params, resolved_params),
                           [e EXCEPT !.memo = dict_set(@, fn, partial_resolved_template),
                                     !.expanded = Append(@, fn)]),
                       LAMBDA r : [name |-> fn, e |-> r.e]))

resolve_template_expr(name, resolved_params, e) ==
    Bind(full_name(name, resolved_params),
         LAMBDA fn :
             IF AlreadyResolved(fn, e.memo) THEN [name |-> fn, e |-> e]
             ELSE Bind(resolve_global_expr(
                           dict_get(e.decls, name),
                           Zipped(dict_get(e.decls, name).template_params, resolved_params),
                           [e EXCEPT !.memo = dict_set(@, fn, partial_resolved_template),
                                     !.expanded = Append(@, fn)]),
                       LAMBDA r :
                           [name |-> fn,
                            e |-> [r.e EXCEPT !.memo =
                                      dict_set(@, fn, [r.node EXCEPT !.identifier = fn])]]))

\* the first loop of resolve_templates
IsTemplate(global_expr) ==
    global_expr.type \in {"clazz_decl", "func_decl"} /\ global_expr.template_params # <<>>
RECURSIVE TemplatesOf(_)
TemplatesOf(text) ==
    IF text = <<>> THEN <<>>
    ELSE IF IsTemplate(text[Len(text)])
         THEN dict_set(TemplatesOf(SubSeq(text, 1, Len(text) - 1)),
                       text[Len(text)].identifier, text[Len(text)])
         ELSE TemplatesOf(SubSeq(text, 1, Len(text) - 1))
RECURSIVE NonTemplatesOf(_)
NonTemplatesOf(text) ==
    IF text = <<>> THEN <<>>
    ELSE (IF IsTemplate(Head(text)) THEN <<>> ELSE <<Head(text)>>) \o NonTemplatesOf(Tail(text))

(***************************************************************************)
(* The programs handed to resolve_templates: ten templates, the function   *)
(* idn, optionally a function that bears the name k_5 or a class and a     *)
(* function whose types refer to Pair<Num>, and a main whose body is one   *)
(* or two of the statements below.                                         *)
(***************************************************************************)
NumType == simple_type(identifier("Num"), <<>>)
BoxType == simple_type(identifier("Box"), <<>>)
PairOf(t) == simple_type(identifier("Pair"), <<t>>)
result_is(value) == assignment(identifier("result"), value)
one_of(t) == function_call("one", <<t>>, <<>>)

Templates ==
    << func_decl(NumType, "one", <<placeholder("T")>>, <<>>, <<result_is(integer(1))>>),
       func_decl(NumType, "k", <<placeholder("N")>>, <<>>,
                 << var_decl(array_type(identifier("Num"), <<>>, placeholder("N")), "a"),
                    result_is(placeholder("N")) >>),
       func_decl(NumType, "two", <<placeholder("T")>>,
                 <<var_decl(simple_type(placeholder("T"), <<>>), "x")>>,
                 <<result_is(one_of(placeholder("T")))>>),
       func_decl(NumType, "r", <<placeholder("T")>>, <<var_decl(NumType, "n")>>,
                 <<result_is(function_call("r", <<placeholder("T")>>, <<identifier("n")>>))>>),
       func_decl(NumType, "ping", <<placeholder("T")>>, <<>>,
                 <<result_is(function_call("pong", <<placeholder("T")>>, <<>>))>>),
       func_decl(NumType, "pong", <<placeholder("T")>>, <<>>,
                 <<result_is(function_call("ping", <<placeholder("T")>>, <<>>))>>),
       func_decl(NumType, "m", <<placeholder("A"), placeholder("B")>>, <<>>,
                 <<result_is(placeholder("A"))>>),
       func_decl(NumType, "m_1", <<placeholder("A")>>, <<>>, <<result_is(integer(0))>>),
       clazz_decl("Node", <<placeholder("T")>>,
                  << field_decl("next", simple_type(identifier("Node"), <<placeholder("T")>>)),
                     field_decl("v", simple_type(placeholder("T"), <<>>)) >>),
       clazz_decl("Pair", <<placeholder("T")>>,
                  << field_decl("first", simple_type(placeholder("T"), <<>>)),
                     field_decl("second", simple_type(placeholder("T"), <<>>)) >>) >>

Idn == func_decl(NumType, "idn", <<>>, <<var_decl(NumType, "x")>>, <<result_is(identifier("x"))>>)
Extras ==
    { <<>>,
      <<func_decl(NumType, "k_5", <<>>, <<>>, <<result_is(integer(0))>>)>>,
      << clazz_decl("Box", <<>>, <<field_decl("inner", PairOf(NumType))>>),
         func_decl(PairOf(BoxType), "f", <<>>, <<var_decl(PairOf(NumType), "p")>>, <<>>) >> }

Statements ==
    { assignment(identifier("a"), one_of(NumType)),
      result_is(binary_expr(one_of(NumType), "+", one_of(BoxType))),
      var_decl_with_assign(NumType, "b", function_call("k", <<integer(5)>>, <<>>)),
      var_decl_with_assign(AutoType, "c", one_of(BoxType)),
      var_decl(PairOf(NumType), "p"),
      if_expr(identifier("a"), <<result_is(function_call("two", <<NumType>>, <<>>))>>),
      if_expr(one_of(NumType), <<result_is(integer(1))>>),
      while_expr(one_of(NumType), <<result_is(integer(1))>>),
      result_is(function_call("idn", <<>>, <<one_of(NumType)>>)),
      result_is(function_call("r", <<NumType>>, <<identifier("a")>>)),
      assignment(identifier("p"),
                 constructor_call("Pair", <<NumType>>, <<identifier("a"), identifier("b")>>)),
      result_is(function_call("k", <<integer(5)>>, <<>>)),
      result_is(function_call("ping", <<NumType>>, <<>>)),
      var_decl(simple_type(identifier("Node"), <<NumType>>), "q"),
      result_is(function_call("m", <<integer(1), integer(2)>>, <<>>)),
      result_is(function_call("m_1", <<integer(2)>>, <<>>)) }

MaxBody == 2
Bodies == UNION {[1..n -> Statements] : n \in 1..MaxBody}
Sources2 ==
    { Templates \o <<Idn>> \o extra \o <<func_decl(NumType, "main", <<>>, <<>>, body)>> :
          extra \in Extras, body \in Bodies }

InitE ==
    /\ parsed_text \in Sources2
    /\ template_decls = <<>>
    /\ nontemplate_decls = <<>>
    /\ resolved_template_functions = <<>>
    /\ expansions = <<>>
    /\ partial = <<>>
    /\ output = <<>>
    /\ stage = "parsed"
    /\ IdleButE

\* the loop that sorts the declarations into templates and the rest
SplitDecls ==
    /\ stage = "parsed"
    /\ template_decls' = TemplatesOf(parsed_text)
    /\ nontemplate_decls' = NonTemplatesOf(parsed_text)
    /\ stage' = "resolving"
    /\ UNCHANGED <<parsed_text, resolved_template_functions, expansions, partial, output, restE>>

\* one pass of the final loop: the next declaration that is no template
ResolveDecl ==
    /\ stage = "resolving"
    /\ Len(partial) < Len(nontemplate_decls)
    /\ LET r == resolve_global_expr(nontemplate_decls[Len(partial) + 1], <<>>,
                                    [decls |-> template_decls,
                                     memo |-> resolved_template_functions,
                                     expanded |-> expansions])
       IN /\ partial' = Append(partial, r.node)
          /\ resolved_template_functions' = r.e.memo
          /\ expansions' = r.e.expanded
    /\ UNCHANGED <<parsed_text, template_decls, nontemplate_decls, output, stage, restE>>

\* return result + list(resolved_template_functions.values())
ReturnResolved ==
    /\ stage = "resolving"
    /\ Len(partial) = Len(nontemplate_decls)
    /\ output' = partial \o dict_values(resolved_template_functions)
    /\ stage' = "returned"
    /\ UNCHANGED <<parsed_text, template_decls, nontemplate_decls,
                   resolved_template_functions, expansions, partial, restE>>

NextE == SplitDecls \/ ResolveDecl \/ ReturnResolved

SpecE == InitE /\ [][NextE]_vars

(***************************************************************************)
(* soflang/preprocess.py: recursive_parse.  A path is the sequence of its  *)
(* components; the identifier of an import is the sequence of the parts    *)
(* that "/" separates, the first of them "@" for the prefix "@/".          *)
(***************************************************************************)
\* Path.resolve: ".." leaves the directory named before it
RECURSIVE resolve(_)
resolve(path) ==
    IF path = <<>> THEN <<>>
    ELSE IF path[Len(path)] = ".."
         THEN Bind(resolve(SubSeq(path, 1, Len(path) - 1)),
                   LAMBDA up : IF up = <<>> THEN <<>> ELSE SubSeq(up, 1, Len(up) - 1))
         ELSE Append(resolve(SubSeq(path, 1, Len(path) - 1)), path[Len(path)])

parent(path) == SubSeq(path, 1, Len(path) - 1)
slib == <<"soflang", "slib">>

import_decl(library_name) == [type |-> "import_decl", identifier |-> library_name]

\* the path an import names, seen from the file that holds it
next_path(cur_path, ident) ==
    IF ident[1] = "@"
    THEN resolve(slib \o Tail(ident))
    ELSE resolve(parent(cur_path) \o ident)

\* the for loop over the global expressions of one file, from the k-th on
RECURSIVE ScanFrom(_, _, _, _)
ScanFrom(k, global_exprs, cur_path, st) ==
    IF k > Len(global_exprs) THEN st
    ELSE IF global_exprs[k].type = "import_decl"
         THEN Bind(next_path(cur_path, global_exprs[k].identifier),
                   LAMBDA np :
                       IF np \notin st.checked_paths
                       THEN ScanFrom(k + 1, global_exprs, cur_path,
                                     [st EXCEPT !.checked_paths = @ \cup {np},
                                                !.load_queue = Append(@, np)])
                       ELSE ScanFrom(k + 1, global_exprs, cur_path, st))
         ELSE ScanFrom(k + 1, global_exprs, cur_path,
                       [st EXCEPT !.result = Append(@, global_exprs[k])])

(***************************************************************************)
(* The file systems of the runs: root.sofl, a.sofl and b.sofl in one       *)
(* directory, c.sofl in a directory below it and std.sofl in the library;  *)
(* every file declares one function of its own name after its imports.     *)
(***************************************************************************)
RootPath == <<"p", "root">>
APath == <<"p", "a">>
BPath == <<"p", "b">>
CPath == <<"p", "sub", "c">>
StdPath == <<"soflang", "slib", "std">>
Paths == {RootPath, APath, BPath, CPath, StdPath}

ImportOrder == << <<"a">>, <<"b">>, <<"sub", "c">>, <<"@", "std">>, <<"root">>, <<"c">> >>
RECURSIVE ImportsFrom(_, _)
ImportsFrom(k, idents) ==
    IF k > Len(ImportOrder) THEN <<>>
    ELSE (IF ImportOrder[k] \in idents THEN <<import_decl(ImportOrder[k])>> ELSE <<>>)
         \o ImportsFrom(k + 1, idents)
Text(idents, name) ==
    Append(ImportsFrom(1, idents),
           func_decl(simple_type(identifier("Num"), <<>>), name, <<>>, <<>>, <<>>))

FileSystems ==
    { [path \in Paths |->
          CASE path = RootPath -> Text(ir, "root")
            [] path = APath -> Text(ia, "a")
            [] path = BPath -> Text(ib, "b")
            [] path = CPath -> Text(ic, "c")
            [] OTHER -> Text({}, "std")] :
      ir \in SUBSET {<<"a">>, <<"b">>, <<"sub", "c">>, <<"@", "std">>, <<"root">>},
      ia \in SUBSET {<<"root">>, <<"b">>},
      ib \in SUBSET {<<"root">>, <<"a">>},
      ic \in SUBSET {<<"c">>} }

InitR ==
    /\ files \in FileSystems
    /\ initial_path \in {RootPath, <<"p", "sub", "..", "root">>}
    /\ checked_paths = {}
    /\ load_queue = <<resolve(initial_path)>>
    /\ flat = <<>>
    /\ loading = <<>>
    /\ IdleButR

\* one pass of the while loop: the last path of the queue is loaded
Load ==
    /\ initial_path # <<>>
    /\ Len(load_queue) > 0
    /\ LET cur_path == load_queue[Len(load_queue)]
           st == ScanFrom(1, files[cur_path], cur_path,
                          [checked_paths |-> checked_paths,
                           load_queue |-> SubSeq(load_queue, 1, Len(load_queue) - 1),
                           result |-> flat])
       IN /\ loading' = Append(loading, cur_path)
          /\ checked_paths' = st.checked_paths
          /\ load_queue' = st.load_queue
          /\ flat' = st.result
    /\ UNCHANGED <<files, initial_path, restR>>

NextR == Load

SpecR == InitR /\ [][NextR]_vars

(***************************************************************************)
(* Properties of the translator and of the run of its output.              *)
(***************************************************************************)
Translated == phase # "source"
Returned == ev.kind = "return" /\ ev.matched
CurBase == bases[Len(bases)]
Callees == {k \in 1..Len(src) : src[k].name # "main"}

RECURSIVE SpaceBefore(_, _)
SpaceBefore(parameters, i) ==
    IF i <= 1 THEN 0
    ELSE SpaceBefore(parameters, i - 1)
         + calculate_space(parameters[i - 1].type, parameters[i - 1].array_size)

\* C2: when the callee's RETURN has executed, the caller's stack height is
\* the height just before the call site plus footprint(callee.return), and
\* no caller slot below the result slot has changed.
C2_CallLeavesOnlyResult ==
    Returned =>
        /\ ec.sp = ev.h0 + ev.foot
        /\ \A i \in 0..ev.h0 : Rd(ec.stack, i) = Rd(ev.snap, i)

\* C3: when the callee executes RETURN, ip becomes the index of the
\* instruction immediately after the JUMPA that performed the call.
C3_ReturnResumesAfterJumpA ==
    Returned => ec.ip = ev.jumpa + 1

\* C4: in a callee the variable table maps result to -1 - footprint(return)
\* and the i-th parameter to the slots of the i-th argument, laid out from
\* offset 0 upward in declaration order; none sits on the return address (-1).
C4_FrameLayout ==
    Translated =>
        \A k \in Callees :
            LET f == src[k]
                frame == tr.frames[f.name]
            IN /\ frame.positions["result"] =
                      -1 - calculate_space(f.return_type, f.return_array_size)
               /\ \A i \in 1..Len(f.parameters) :
                      /\ frame.positions[f.parameters[i].name] = SpaceBefore(f.parameters, i)
                      /\ frame.positions[f.parameters[i].name] # -1

\* C5: at the close of every block the emitted cleanup has popped every
\* local declared in the block, whatever the declarations are.
C5_BlockPopsItsLocals ==
    Translated =>
        \A b \in 1..Len(tr.blocks) : tr.blocks[b].popped = tr.blocks[b].declared

\* C6: at every instruction the translator's symbolic stack depth equals the
\* runtime stack height relative to the frame base when it executes.
C6_SymbolicDepthIsRuntimeDepth ==
    (phase = "running" /\ ValidIp(ec.ip)) =>
        ec.sp - CurBase = tr.sym[NormIp(ec.ip) + 1]

FirstIndexOf(name) ==
    CHOOSE k \in 0..(Len(tr.result) - 1) :
        /\ tr.owner[k + 1] = name
        /\ \A j \in 0..(k - 1) : tr.owner[j + 1] # name

\* C7: main starts at index 0, the other functions follow in source order,
\* no TempJumpAI remains and every JUMPA targets the first instruction of
\* the function named by the placeholder it replaced.
C7_ProgramAssembly ==
    Translated =>
        /\ FirstIndexOf("main") = 0
        /\ \A j, k \in Callees : j < k => FirstIndexOf(src[j].name) < FirstIndexOf(src[k].name)
        /\ \A k \in 1..Len(tr.result) :
              /\ tr.result[k].op # "TJUMPA"
              /\ tr.placed[k].op = "TJUMPA" =>
                    /\ tr.result[k].op = "JUMPA"
                    /\ tr.result[k].arg = FirstIndexOf(tr.placed[k].f)
              /\ tr.placed[k].op # "TJUMPA" => tr.result[k] = tr.placed[k]

\* a translated program whose main is not the first function and that calls
\* a function placed after main
C7_Witness ==
    /\ Translated
    /\ src[1].name # "main"
    /\ Cardinality(Callees) >= 2
    /\ \E k \in 1..Len(tr.result) : tr.placed[k].op = "TJUMPA" /\ tr.result[k].arg > 0

(***************************************************************************)
(* Properties of the encoding and of the three machines.                   *)
(***************************************************************************)
Encoded == image # <<>> /\ image.ok
byte_offset == prefix_shift(listing, Len(listing))

\* the instructions decode_binary_asm reads from the bytes, first to last
RECURSIVE DecodeFrom(_, _, _)
DecodeFrom(bs, idx, acc) ==
    IF idx >= Len(bs) THEN acc
    ELSE Bind(decode_binary_asm(bs, idx),
              LAMBDA i : IF i = Raised THEN Append(acc, i)
                         ELSE DecodeFrom(bs, idx + bin_size(i), Append(acc, i)))

Decoded == DecodeFrom(image.bs, 0, <<>>)

\* instruction k (1-based) of the listing with its jump in bytes
InBytes(k) ==
    CASE listing[k].op \in {"JUMP", "JUMP0", "DUMP"} ->
           I1(listing[k].op, At(byte_offset, k - 1 + listing[k].arg) - At(byte_offset, k - 1))
      [] listing[k].op = "JUMPA" -> I1("JUMPA", At(byte_offset, listing[k].arg))
      [] OTHER -> listing[k]

\* C8: decoding the bytes of an encoded listing, instruction after
\* instruction, gives the listing back, the same classes with the same
\* immediates, negative ones included, but for the jumps, which come back
\* as distances and targets in bytes.
C8_DecodeInvertsEncode ==
    Encoded =>
        /\ Len(Decoded) = Len(listing)
        /\ \A k \in 1..Len(listing) : Decoded[k] = InBytes(k)

\* an encoded listing with a negative immediate, decoded back to it
C8_Witness ==
    /\ Encoded
    /\ \E k \in 1..Len(listing) :
          /\ listing[k].arg < 0
          /\ Len(Decoded) >= k
          /\ Decoded[k].arg < 0

\* C9: the list machine and the binary machine, stepped together, stay
\* in the same status with equal sp, the binary ip being the byte offset
\* of the instruction the list ip points at; when they have halted on EXIT
\* their stacks are equal.
C9_Lockstep ==
    Encoded =>
        /\ listvm.status = binvm.status
        /\ binvm.ec.sp = listvm.ec.sp
        /\ InRange(byte_offset, listvm.ec.ip)
        /\ binvm.ec.ip = At(byte_offset, listvm.ec.ip)
        /\ listvm.status = "halted" => binvm.ec.stack = listvm.ec.stack

\* a cell of the list machine against the same cell of the binary machine:
\* the same number, or an instruction index against its byte offset
CellRel(a, b) ==
    \/ a = b
    \/ a >= 0 /\ a < Len(byte_offset) /\ b = At(byte_offset, a)

Corresponds ==
    /\ listvm.status = binvm.status
    /\ binvm.ec.sp = listvm.ec.sp
    /\ listvm.ec.ip >= 0
    /\ listvm.ec.ip < Len(byte_offset)
    /\ binvm.ec.ip = At(byte_offset, listvm.ec.ip)
    /\ \A k \in (DOMAIN listvm.ec.stack) \cup (DOMAIN binvm.ec.stack) :
          CellRel(Rd(listvm.ec.stack, k), Rd(binvm.ec.stack, k))

\* the d-th cell from the top is the same number in both machines
SameTop(d) == Rd(listvm.ec.stack, listvm.ec.sp - d) = Rd(binvm.ec.stack, binvm.ec.sp - d)

\* the instruction about to run jumps inside the listing, computes with
\* numbers that are the same in both machines, and returns to an address
\* that DUMP pushed
WithinDiscipline ==
    Bind(ListFetch(listvm.ec.ip),
         LAMBDA i :
           CASE i.op \in {"ADD", "SUB", "MUL", "DIV", "LESS"} -> SameTop(0) /\ SameTop(1)
             [] i.op \in {"INV", "DLOAD", "DSTORE"} -> SameTop(0)
             [] i.op = "JUMP0" ->
                  /\ SameTop(0)
                  /\ listvm.ec.ip + i.arg >= 0
                  /\ listvm.ec.ip + i.arg < Len(byte_offset)
             [] i.op \in {"JUMP", "DUMP"} ->
                  /\ listvm.ec.ip + i.arg >= 0
                  /\ listvm.ec.ip + i.arg < Len(byte_offset)
             [] i.op = "JUMPA" -> i.arg >= 0 /\ i.arg < Len(byte_offset)
             [] i.op = "RETURN" ->
                  Bind(Rd(listvm.ec.stack, listvm.ec.sp),
                       LAMBDA a : /\ a >= 0
                                  /\ a < Len(byte_offset)
                                  /\ Rd(binvm.ec.stack, binvm.ec.sp) = At(byte_offset, a))
             [] OTHER -> TRUE)

\* C9 as it holds: the two machines start in correspondence, and a step
\* keeps them in it (same status, equal sp, the binary ip the byte offset
\* of the list ip, every cell the same number or an instruction index
\* against its byte offset) when the instruction jumps inside the listing
\* and uses an address that DUMP pushed only to return to it.
C9_StepKeepsCorrespondence ==
    [][(turn = "encode" \/ (Corresponds /\ WithinDiscipline)) => Corresponds']_vars

\* both machines halted after a call that returned, a return address that
\* nothing used still on the stack: an index in one, a byte offset in the other
C9_Witness ==
    /\ Encoded
    /\ \E k \in 1..Len(listing) : listing[k].op = "RETURN"
    /\ listvm.status = "halted"
    /\ binvm.status = "halted"
    /\ Corresponds
    /\ binvm.ec.ip > listvm.ec.ip
    /\ \E k \in DOMAIN listvm.ec.stack :
          Rd(listvm.ec.stack, k) # Rd(binvm.ec.stack, k)

\* the words of the processor's stack against the cells of the list
\* machine's: cell k is the word at stack_start + 4 * (k - max_result - 1)
WordOf(k) ==
    to_int(read32(board.m.ram, num32_from_int(board.stack_start + 4 * (k - max_result - 1))))

SameStack ==
    /\ to_int(board.m.sp) = board.stack_start + 4 * (listvm.ec.sp - max_result)
    /\ \A k \in 0..listvm.ec.sp : WordOf(k) = Rd(listvm.ec.stack, k)

\* C1: when the list machine has halted on EXIT and the processor has
\* stopped, the processor stopped at the end of the program, its stack
\* is as high as the machine's and holds the same words.
C1_ProcessorAgreesWithVM ==
    (Encoded /\ listvm.status = "halted" /\ ~CpuRunning(board)) =>
        (board.m.exc = "end" /\ SameStack)

\* C10: the result of add, neg, sub and mul is the number the assert
\* statement of the operation compares it to, the exact result modulo 2^32.
C10_ArithmeticMatchesReference ==
    arith.op \in {"add", "neg", "sub", "mul"} => Number32_eq(arith.expected, arith.res)

\* an addition of two positive numbers that wrapped into the negatives
C10_Witness ==
    /\ arith.op = "add"
    /\ to_int(operands[1]) > 0
    /\ to_int(operands[2]) > 0
    /\ to_int(arith.res) < 0

\* C11: where the quotient of the abstract machine's DIV is defined and fits
\* 32 bits, the division of the processor returns that quotient, whatever
\* the signs of the operands.
C11_DivisionAgreesWithVM ==
    (arith.op = "div" /\ arith.expected.defined) =>
        (arith.res # None /\ to_int(arith.res) = arith.expected.value)

\* C12: the comparison of the processor is true exactly when the first
\* number is less than the second as signed integers.
C12_LessIsSignedOrder ==
    arith.op = "less" => (arith.res <=> arith.expected)

\* the instruction the processor fetched in its last cycle, if it fetched
\* at the first byte of one
Fetched == image.starts[decoded.at] + 1
SignedImmediate == {"PUSH", "STORE", "LOAD", "JUMP", "JUMP0", "DUMP"}

\* C13: after decode() of an instruction with a signed immediate, reg0
\* holds the value the encoder wrote into its bytes.
C13_DecodeReadsSignMagnitude ==
    (Encoded /\ decoded # <<>> /\ decoded.at \in DOMAIN image.starts
       /\ listing[Fetched].op \in SignedImmediate) =>
        (decoded.reg0 # None /\ to_int(decoded.reg0) = InBytes(Fetched).arg)

\* C17: the driver of the processor reports nothing when the program ran
\* into the end opcode and an error in every other case, and after an
\* error it prints nothing else.
C17_OnlyEndIsSilent ==
    turn = "reported" =>
        /\ board.m.exc = "end" <=> (\A k \in 1..Len(stdout) : stdout[k][1] # "Exception")
        /\ board.m.exc # "end" => stdout = << <<"Exception", board.m.exc>> >>

\* the list machine is about to run a STORE, and runs it
StoreStep ==
    /\ turn = "vm"
    /\ Running(listvm)
    /\ ListFetch(listvm.ec.ip).op = "STORE"
    /\ Running(listvm')
    /\ listvm'.ec.ip = listvm.ec.ip + 1

\* STORE rel has popped v, written it at index dest, and changed no cell
\* up to the new top but that one
Stored(old, new, dest) ==
    /\ new.sp = old.sp - 1
    /\ Rd(new.stack, dest) = Rd(old.stack, old.sp)
    /\ \A k \in 0..new.sp : k # dest => Rd(new.stack, k) = Rd(old.stack, k)

\* C20 as stated: STORE rel pops v and writes it at sp - rel, sp being the
\* stack pointer after the pop; sp goes down by one and no other slot changes.
C20_StoreRelativeToNewTop ==
    [][StoreStep =>
         Stored(listvm.ec, listvm'.ec,
                listvm'.ec.sp - ListFetch(listvm.ec.ip).arg)]_vars

\* C20 as it holds: STORE rel pops v and writes it at sp - rel, sp being
\* the stack pointer before the pop; sp goes down by one and no other slot
\* up to the new top changes.
C20_StoreRelativeToOldTop ==
    [][StoreStep =>
         Stored(listvm.ec, listvm'.ec,
                listvm.ec.sp - ListFetch(listvm.ec.ip).arg)]_vars

\* a STORE with a positive distance has just run and left a number in its cell
C20_Witness ==
    /\ Encoded
    /\ listvm.ec.ip >= 1
    /\ listvm.ec.ip <= Len(listing)
    /\ listing[listvm.ec.ip].op = "STORE"
    /\ listing[listvm.ec.ip].arg >= 1
    /\ Rd(listvm.ec.stack, listvm.ec.sp + 1 - listing[listvm.ec.ip].arg) # 0

\* a line that is not an instruction of the table: its first word is none of
\* the 21 mnemonics, or the count of its immediates is not that of the table
AllOps == ParsedPlain \cup ParsedWithArg \cup {"LESS"}
BadLine(words) ==
    \/ \A op \in AllOps : Spelling(op) # upper(words[1])
    \/ \E op \in AllOps :
          /\ Spelling(op) = upper(words[1])
          /\ Len(words) - 1 # (IF op \in WithField THEN 1 ELSE 0)
Malformed(ls) ==
    \E k \in 1..Len(ls) : strip(ls[k]) # <<>> /\ BadLine(split(strip(ls[k])))

\* C19: parse_asm gives back the instructions a text was written from,
\* blank lines or not, and raises for a text with an unknown mnemonic or a
\* wrong count of immediates.
C19_ParseInvertsPrint ==
    parsed.state \in {"returned", "raised"} =>
        /\ written # <<>> => parsed = [state |-> "returned", result |-> written]
        /\ (written = <<>> /\ Malformed(lines)) => parsed.state = "raised"
(***************************************************************************)
(* Properties of the loading of the source files.                          *)
(***************************************************************************)
Returns == initial_path # <<>> /\ load_queue = <<>>
Occurrences(seq, x) == Cardinality({k \in DOMAIN seq : seq[k] = x})

\* C16: whatever the imports, a cycle that leads back to the root file
\* included, recursive_parse loads every canonical path at most once, and
\* the declarations of every file appear at most once in the flat result.
C16_EachFileLoadedOnce ==
    /\ \A path \in Paths : Occurrences(loading, path) <= 1
    /\ \A k \in DOMAIN flat : Occurrences(flat, flat[k]) <= 1

(***************************************************************************)
(* Properties of the resolution of the templates.                          *)
(***************************************************************************)
Resolved == stage = "returned"
Declarations(name) == {k \in DOMAIN output : output[k].identifier = name}
MainOf(text) == text[CHOOSE k \in DOMAIN text : text[k].identifier = "main"]

\* C14: in one run of resolve_templates the references to one template
\* with one tuple of arguments all get the same mangled name, the template
\* is expanded once for it, and the list returned holds exactly one
\* declaration of that name.
C14_OneExpansionPerInstance ==
    Resolved =>
        /\ \A i, j \in DOMAIN MainOf(parsed_text).body :
               MainOf(parsed_text).body[i] = MainOf(parsed_text).body[j]
                   => MainOf(output).body[i] = MainOf(output).body[j]
        /\ \A k \in DOMAIN resolved_template_functions :
               /\ Occurrences(expansions, resolved_template_functions[k].key) = 1
               /\ Cardinality(Declarations(resolved_template_functions[k].key)) = 1

\* a parametric reference left in a node or below it
RECURSIVE Unexpanded(_)
AnyUnexpanded(nodes) == \E k \in DOMAIN nodes : Unexpanded(nodes[k])
Unexpanded(n) ==
    CASE n.type \in {"placeholder", "partial_resolved_template"} -> TRUE
      [] n.type = "type" ->
           \/ n.template_params # <<>>
           \/ Unexpanded(n.base)
           \/ (n.kind.dim = "array" /\ Unexpanded(n.kind.size))
      [] n.type \in {"func_call", "constructor_call"} ->
           n.template_params # <<>> \/ AnyUnexpanded(n.parameters)
      [] n.type \in {"var_decl", "field_decl"} -> Unexpanded(n.kind)
      [] n.type = "var_decl_with_assign" -> Unexpanded(n.kind) \/ Unexpanded(n.value)
      [] n.type \in {"if_expr", "while_expr"} ->
           Unexpanded(n.condition) \/ AnyUnexpanded(n.body)
      [] n.type = "gen_expr" -> Unexpanded(n.left) \/ Unexpanded(n.right)
      [] n.type = "assignment" -> Unexpanded(n.dest) \/ Unexpanded(n.value)
      [] n.type = "func_decl" ->
           Unexpanded(n.kind) \/ AnyUnexpanded(n.parameters) \/ AnyUnexpanded(n.body)
      [] n.type = "clazz_decl" -> AnyUnexpanded(n.types)
      [] OTHER -> FALSE
\* the placeholders a declaration is parametrised with, kept in its header
HeaderKept(decl) == AnyUnexpanded(decl.template_params)

\* C15: the list resolve_templates returns is fully expanded: no
\* placeholder, no call or type with template parameters and no sentinel is
\* left, wherever the parametric reference stood in the input.
C15_OutputFullyExpanded ==
    Resolved => \A k \in DOMAIN output : ~Unexpanded(output[k]) /\ ~HeaderKept(output[k])

(***************************************************************************)
(* Properties of the validator.                                            *)
(***************************************************************************)
\* the identifiers an expression uses
RECURSIVE Uses(_)
Uses(expr) ==
    CASE expr.kind = "GeneralExpr" -> Uses(expr.left) \cup Uses(expr.right)
      [] expr.kind = "UnaryExpr" -> Uses(expr.operand)
      [] expr.kind = "ArrayIndex" ->
           {expr.var_name} \cup (IF expr.index.kind = "str" THEN {expr.index.name} ELSE {})
      [] expr.kind = "Atom" ->
           CASE expr.value.kind = "IdentifierExpr" -> {expr.value.name}
             [] expr.value.kind = "FunctionCall" ->
                  UNION {Uses(expr.value.parameters[k]) : k \in DOMAIN expr.value.parameters}
             [] expr.value.kind = "ArrayIndex" -> Uses(expr.value)
             [] OTHER -> {}
      [] OTHER -> {}
TargetOf(stmt) == IF stmt.target.kind = "str" THEN {stmt.target.name} ELSE Uses(stmt.target)

\* the identifiers used or assigned in the statements while not in scope
RECURSIVE OutOfScope(_, _)
OutOfScope(statements, scope) ==
    IF statements = <<>> THEN {}
    ELSE CASE Head(statements).kind = "VariableDeclaration" ->
                OutOfScope(Tail(statements), scope \cup {Head(statements).variable.name})
           [] Head(statements).kind = "VarDeclWithAssign" ->
                (Uses(Head(statements).value) \ scope)
                    \cup OutOfScope(Tail(statements), scope \cup {Head(statements).name})
           [] Head(statements).kind = "Assignment" ->
                ((TargetOf(Head(statements)) \cup Uses(Head(statements).value)) \ scope)
                    \cup OutOfScope(Tail(statements), scope)
           [] Head(statements).kind \in {"IfExpression", "WhileExpression"} ->
                (Uses(Head(statements).condition) \ scope)
                    \cup OutOfScope(Head(statements).body, scope)
                    \cup OutOfScope(Tail(statements), scope)
           [] OTHER -> OutOfScope(Tail(statements), scope)
ScopeAtEntry(func) == {func.parameters[k].name : k \in DOMAIN func.parameters} \cup {"result"}
Undefined ==
    UNION {OutOfScope(to_validate[k].body, ScopeAtEntry(to_validate[k])) : k \in DOMAIN to_validate}
Reported == {errors[k].name : k \in {j \in DOMAIN errors : errors[j].error = "UndefinedVariableError"}}

\* C18: the validator reports UndefinedVariableError for x exactly when x
\* is used or assigned while it is no parameter, not result and not
\* declared, with or without initializer, earlier in the same or an
\* enclosing block; what an if or while body declares is out of scope after
\* it; the errors of all the functions are in the list returned.
C18_UndefinedExactlyWhenOutOfScope ==
    verdict \in {"returned", "raised"} => verdict = "returned" /\ Reported = Undefined

(***************************************************************************)
(* Properties of the encoding of the immediates.                           *)
(***************************************************************************)
\* C21: every immediate in the range of its field (u8 for POP, u16 for
\* ALLOC and JUMPA, int32 for PUSH) is encoded without error and is decoded
\* to itself.
C21_FieldRangeEncodes ==
    /\ encoding.state # "raised"
    /\ decoding.state = "decoded" => decoding.instruction = candidate


\* the opcodes that leave ip to inc_ip; JUMP0 is one of them when the word
\* it pops is not zero
StraightLine ==
    {"ADD", "SUB", "MUL", "DIV", "INV", "LESS", "PUSH", "POP", "STORE", "DSTORE",
     "LOAD", "DLOAD", "DUMP", "ALLOC", "NOOP", "JUMP0"}
TopWord(m) == read32(m.ram, num32_from_int(to_int(m.sp) - 4))
AtInstruction(m) == to_int(m.ip) \in DOMAIN image.starts
InstructionAt(m) == listing[image.starts[to_int(m.ip)] + 1]

\* the processor is at the opcode byte of a straight-line instruction and
\* runs one cycle, which raises nothing
StraightCycle ==
    /\ turn = "cpu"
    /\ Encoded
    /\ AtInstruction(board.m)
    /\ InstructionAt(board.m).op \in StraightLine
    /\ InstructionAt(board.m).op = "JUMP0" => ~Number32_eq(TopWord(board.m), ZERO32)
    /\ board'.m.exc = ""
    /\ cycles' = cycles + 1

JumpCycle ==
    /\ turn = "cpu"
    /\ Encoded
    /\ AtInstruction(board.m)
    /\ InstructionAt(board.m).op = "JUMP"
    /\ cycles' = cycles + 1

\* C23: a cycle on an encoded JUMP whose distance in bytes is D raises
\* nothing and leaves ip at ip + D, for D of either sign.
C23_JumpAddsDisplacement ==
    [][JumpCycle =>
         /\ board'.m.exc = ""
         /\ to_int(board'.m.ip) =
              to_int(board.m.ip) + InBytes(image.starts[to_int(board.m.ip)] + 1).arg]_vars


\* stack index of offset 0 of main's frame: run_abstract starts with
\* sp = max_result and the translator with stack_pos = -1
FrameBase == max_result + 1
SlotOf(name, k) == FrameBase + lowered.var_stack_positions[name] + k
Observed == at_entry # <<>> /\ at_exit # <<>>
SameBelow(old, new, top_index) ==
    \A i \in 0..top_index : Rd(new.stack, i) = Rd(old.stack, i)

\* the code of a read of slot has pushed the word of slot and changed nothing else
ReadsSlot(slot) ==
    /\ at_exit.sp = at_entry.sp + 1
    /\ top(at_exit) = Rd(at_entry.stack, slot)
    /\ SameBelow(at_entry, at_exit, at_entry.sp)

\* the code of a write to slot has popped the value and put it into slot,
\* and changed no other word
WritesSlot(slot) ==
    /\ at_exit.sp = at_entry.sp - 1
    /\ Rd(at_exit.stack, slot) = top(at_entry)
    /\ \A i \in 0..at_exit.sp : i # slot => Rd(at_exit.stack, i) = Rd(at_entry.stack, i)

\* C24: for an array a of N elements at base slot B and 0 <= k < N, the code
\* of a[k] and the code of a[j] with j = k both read, and both write, slot
\* B + k; a read leaves the stack one word higher, a write one word lower.
C24_IndexAddressesBasePlusK ==
    \A s \in IndexShapes :
        (fragment = IndexFragment(s) /\ Observed) =>
            IF s.write THEN WritesSlot(SlotOf("a", s.k)) ELSE ReadsSlot(SlotOf("a", s.k))

\* a[j] with j = 2 has been written in an array that is not the first
\* local, and a[1] has been read through j
C24_Witness ==
    /\ Observed
    /\ progress = "halted"
    /\ \E s \in IndexShapes :
          /\ fragment = IndexFragment(s)
          /\ s.by = "str"
          /\ s.pad = 1
          /\ \/ s.write /\ s.k = 2 /\ Rd(at_exit.stack, SlotOf("a", 2)) = 77
                /\ Rd(at_entry.stack, SlotOf("a", 2)) = 12
             \/ ~s.write /\ s.k = 1 /\ top(at_exit) = 11
                /\ Rd(at_entry.stack, SlotOf("a", 0)) = 10


\* word i of a variable in a context
VarWord(e, name, i) == Rd(e.stack, SlotOf(name, i))

\* C25: for x and y of the same footprint n >= 1, after the code of x = y
\* word i of x is word i of y for every i < n, y is as it was, and the
\* stack is as high as before the statement.
C25_CopyKeepsWordOrder ==
    \A s \in CopyShapes :
        (fragment = CopyFragment(s) /\ Observed) =>
            /\ \A i \in 0..(s.n - 1) :
                  /\ VarWord(at_exit, "x", i) = VarWord(at_entry, "y", i)
                  /\ VarWord(at_exit, "y", i) = VarWord(at_entry, "y", i)
            /\ at_exit.sp = at_entry.sp

\* a copy of three words 20, 21, 22 over 30, 31, 32 has run
C25_Witness ==
    /\ Observed
    /\ progress = "halted"
    /\ \E s \in CopyShapes :
          /\ fragment = CopyFragment(s)
          /\ s.n = 3
          /\ VarWord(at_entry, "x", 0) = 30 /\ VarWord(at_entry, "x", 2) = 32
          /\ VarWord(at_exit, "x", 0) = 20 /\ VarWord(at_exit, "x", 2) = 22


\* the instruction at 0-based index k of the translated fragment, and the
\* index a jump at k leads to
EmittedAt(k) == lowered.result[k + 1]
TargetFrom(k) == k + EmittedAt(k).arg
ConditionLength(s) == IF s.wide THEN 3 ELSE 1

\* b is the body of a conditional or loop: the JUMP0 before its first
\* instruction and, for a loop, the JUMP after its last one lead where
\* they should
Patched(b, kind, s) ==
    /\ EmittedAt(b.first - 1).op = "JUMP0"
    /\ EmittedAt(b.first - 1 - ConditionLength(s)).op = "LOAD"
    /\ b.popped > 0 => EmittedAt(b.last - 1).op = "POP"
    /\ IF kind = "if"
       THEN TargetFrom(b.first - 1) = b.last
       ELSE /\ EmittedAt(b.last).op = "JUMP"
            /\ TargetFrom(b.first - 1) = b.last + 1
            /\ TargetFrom(b.last) = b.first - 1 - ConditionLength(s)

\* C26: in the translation no JUMP0 is left with the placeholder distance,
\* every JUMP has a distance other than zero, the JUMP0 of a conditional
\* leads to the instruction after the body and its POP, the JUMP0 of a loop
\* to the instruction after the JUMP that closes it, and that JUMP to the
\* first instruction of the condition; so too for empty and nested bodies.
C26_JumpsPatched ==
    \A s \in BlockShapes :
        (fragment = BlockFragment(s) /\ lowered # <<>>) =>
            /\ \A k \in 0..(Len(lowered.result) - 1) :
                  /\ EmittedAt(k).op = "JUMP0" => EmittedAt(k).arg >= 1
                  /\ EmittedAt(k).op = "JUMP" => EmittedAt(k).arg # 0
            /\ Len(lowered.blocks) = IF s.inner = "none" THEN 2 ELSE 3
            /\ Patched(lowered.blocks[Len(lowered.blocks) - 1], s.outer, s)
            /\ lowered.blocks[Len(lowered.blocks) - 1].first - 1 - ConditionLength(s)
                 = lowered.first
            /\ lowered.blocks[Len(lowered.blocks) - 1].last
                 = IF s.outer = "if" THEN lowered.last ELSE lowered.last - 1
            /\ s.inner # "none" => Patched(lowered.blocks[1], s.inner, s)

\* a loop whose body holds a local and a conditional with a local of its
\* own has been translated, run once through and left
C26_Witness ==
    /\ progress = "halted"
    /\ Observed
    /\ \E s \in BlockShapes :
          /\ fragment = BlockFragment(s)
          /\ s.outer = "while" /\ s.inner = "if" /\ s.local /\ s.inner_local
          /\ s.c = 1 /\ s.work
          /\ lowered.blocks[1].popped = 1
          /\ lowered.blocks[2].popped = 2


\* the expansions of the templates that refer to themselves, directly or
\* through another template
Cyclic == {"r_Num", "ping_Num", "pong_Num", "Node_Num"}
Expansion(name) == dict_get(resolved_template_functions, name)
\* the name an expansion refers to where its template referred to a template
ReferenceIn(decl) ==
    IF decl.type = "clazz_decl" THEN decl.types[1].kind.base.value
    ELSE decl.body[1].value.identifier
Partner(name) ==
    CASE name = "ping_Num" -> "pong_Num"
      [] name = "pong_Num" -> "ping_Num"
      [] OTHER -> name

\* C27: when resolve_templates returns, every template that refers to
\* itself or to a template that refers back has been expanded once for its
\* arguments, the reference met while it was being expanded has become the
\* mangled name, and no entry of the memo table is the sentinel any more.
C27_CyclicTemplatesExpandOnce ==
    Resolved =>
        \A k \in DOMAIN resolved_template_functions :
            /\ resolved_template_functions[k].value # partial_resolved_template
            /\ resolved_template_functions[k].key \in Cyclic =>
                 /\ Occurrences(expansions, resolved_template_functions[k].key) = 1
                 /\ ReferenceIn(resolved_template_functions[k].value)
                      = Partner(resolved_template_functions[k].key)
                 /\ ~Unexpanded([resolved_template_functions[k].value
                                    EXCEPT !.template_params = <<>>])

\* ping<Num> and pong<Num> have been expanded into each other, and a
\* template that calls itself or a class that holds itself as well
C27_Witness ==
    /\ Resolved
    /\ dict_has(resolved_template_functions, "ping_Num")
    /\ dict_has(resolved_template_functions, "pong_Num")
    /\ ReferenceIn(Expansion("ping_Num")) = "pong_Num"
    /\ ReferenceIn(Expansion("pong_Num")) = "ping_Num"
    /\ \/ dict_has(resolved_template_functions, "r_Num")
       \/ dict_has(resolved_template_functions, "Node_Num")


(***************************************************************************)
(* Properties of the debugger.                                             *)
(***************************************************************************)
\* every base is at or below cur_sp, and no base is below the one under it
WellStacked(live, cur_sp) ==
    /\ \A k \in DOMAIN live : live[k].start_sp <= cur_sp
    /\ \A k \in 1..(Len(live) - 1) : live[k].start_sp <= live[k + 1].start_sp

\* the list of forward() before its pops: one record more when the
\* instruction at ip is in the allocation map, its base the first of the
\* words it allocated
WithAllocated(f, cur_sp) ==
    IF f.ec.ip \in DOMAIN debug_info.variable_allocations
    THEN Append(f.vars,
                [name |-> debug_info.variable_allocations[f.ec.ip].name,
                 start_sp |-> cur_sp + 1 - debug_info.variable_allocations[f.ec.ip].size,
                 size |-> debug_info.variable_allocations[f.ec.ip].size])
    ELSE f.vars

\* forward() has run and its step raised nothing
Forwarded ==
    fox'.steps = fox.steps + 1 /\ make_step(debug_info.asm_instructions, fox.ec).ok

\* C28: after every forward() the list of live variables is a stack whose
\* bases are at or below sp and do not decrease from bottom to top; it is
\* the list before the step, with a record appended exactly when the
\* instruction run is in the allocation map, less the records at its top
\* whose base is above sp.
C28_LiveVariablesAreAStack ==
    [][Forwarded =>
         /\ WellStacked(fox'.vars, fox'.ec.sp)
         /\ Len(fox'.vars) <= Len(WithAllocated(fox, fox'.ec.sp))
         /\ fox'.vars = SubSeq(WithAllocated(fox, fox'.ec.sp), 1, Len(fox'.vars))
         /\ \A k \in (Len(fox'.vars) + 1)..Len(WithAllocated(fox, fox'.ec.sp)) :
               WithAllocated(fox, fox'.ec.sp)[k].start_sp > fox'.ec.sp]_vars

\* three variables are live, the innermost declared in a loop in a
\* conditional, after an array of no elements came and went
C28_Witness ==
    /\ fox # <<>>
    /\ ~fox.raised
    /\ Len(fox.vars) = 3
    /\ fox.vars[1].name = "n" /\ fox.vars[2].name = "b" /\ fox.vars[3].name = "t"
    /\ fox.vars[2].start_sp = fox.vars[1].start_sp + 1
    /\ fox.vars[3].start_sp = fox.vars[2].start_sp + 2


\* a statement result = f<...>(...) of the input
TemplateCall(st) ==
    st.type = "assignment" /\ st.value.type = "func_call" /\ st.value.template_params # <<>>

\* C29: two references of main that differ in the template or in the
\* tuple of arguments are given different mangled names.
C29_ManglingInjective ==
    Resolved =>
        \A i, j \in DOMAIN MainOf(parsed_text).body :
            (/\ TemplateCall(MainOf(parsed_text).body[i])
             /\ TemplateCall(MainOf(parsed_text).body[j])
             /\ MainOf(parsed_text).body[i].value # MainOf(parsed_text).body[j].value)
                => MainOf(output).body[i].value.identifier
                     # MainOf(output).body[j].value.identifier


\* the statement is a conditional or a loop
IsBlock(f) == f.line.kind \in {"IfExpression", "WhileExpression"}

\* C30: when the block of a conditional or loop has been translated, every
\* name that was in the translator's tables before it has the offset and
\* the footprint it had, also when the block declared a local of that name.
C30_OuterBindingsSurviveBlock ==
    (lowered # <<>> /\ IsBlock(fragment)) =>
        \A n \in DOMAIN lowered.outer_positions :
            /\ lowered.var_stack_positions[n] = lowered.outer_positions[n]
            /\ lowered.var_stack_sizes[n] = lowered.outer_sizes[n]

====================================================================
